---- MODULE Spec2Model ----
(***************************************************************************)
(* Scrape orchestration of the reward flight finder (src/src/cli.ts,       *)
(* scrapeToCache): the month request planner, the request dispatcher with  *)
(* its circuit breaker, dispatch window and session-rewarm lock, and the   *)
(* route completion fan-out.                                               *)
(*                                                                         *)
(* Representation of strings:                                              *)
(*  - a route code "LHR-JFK" is the sequence of its "-"-separated segments *)
(*    <<"LHR", "JFK">> (what route.code.split("-") returns);               *)
(*  - the empty string "" also stands for undefined / null (all falsy);    *)
(*  - a year or month string is the number it prints ("2026" is 2026,      *)
(*    "01" is 1): the planner only compares and concatenates them;         *)
(*  - the request key `${origin}-${destination}-${year}-${month}` is the   *)
(*    tuple <<origin, destination, year, month>>.                          *)
(***************************************************************************)
EXTENDS Integers, Sequences, FiniteSets, TLC

VARIABLES
  phase,            \* "plan" | "dispatch" | "ended": position in scrapeToCache
  allRoutes,        \* cli.ts:72  the routes scrapeDestinations returned
  requestedRoutes,  \* cli.ts:64  the filter tokens of the command line
  targetRoutes,     \* cli.ts:73  routes to plan, with their chosen months
  forceFresh,       \* cli.ts:65
  fetchKinds,       \* the paths the environment lets scrapeMonth take in this run
  cacheFiles,       \* the raw-months directory of the cache: files by request key
  planRoute,        \* planner position: index of the route being planned
  planLeg,          \* planner position: number of addRequest calls done for it
  requestQueue,     \* cli.ts:120/192 requestQueueByKey in insertion order
  routeStates,      \* cli.ts:119
  destinationData,  \* cli.ts:118
  cfg,              \* cli.ts:194-198 request tuning read from the environment
  now,              \* Date.now()
  counters,         \* cli.ts:208-213
  consecutiveFailedRequests,  \* cli.ts:214
  nextQueueIndex,   \* cli.ts:215
  nextDispatchAt,   \* cli.ts:216
  activeTasks,      \* cli.ts:217 (queue indices, 1-based, of the tasks in the set)
  abortError,       \* cli.ts:218 (0 is null, N is the N of the abort message)
  rewarmLock,       \* cli.ts:219 the promise chain: tasks whose run has not finished
  rewarming,        \* tasks executing rewarmScrapeSession
  task,             \* per queue item: position of its launchQueueItem task
  dispPc,           \* position of the dispatch loop
  awaited,          \* what the dispatch loop awaits (a wake time, a window or tasks)
  runOutcome,       \* how scrapeToCache ended
  aggregates,       \* cli.ts:31-32 the two aggregate cache entries, and the writes to them
  launchLog,        \* history: queue indices in launch order
  netLaunch,        \* history: the last launch that took a dispatch window
  routeLog,         \* history: per route, evaluations and emissions
  fetchPc,          \* position of the scrapeMonth call followed in detail
  fetchResult,      \* what that call returned
  predicted,        \* what willUseMonthCache answered for its key
  attempts,         \* history: the network attempts of that call
  pages,            \* the pages opened for browser fallbacks (month.ts:304-310)
  capture           \* fetchMonthDataWithPageFallback: its locals and its position

planVars == <<allRoutes, requestedRoutes, targetRoutes, forceFresh, fetchKinds, cacheFiles, planRoute, planLeg>>

runVars == <<destinationData, cfg, now, counters, consecutiveFailedRequests,
             nextQueueIndex, nextDispatchAt, activeTasks, abortError, rewarmLock,
             rewarming, task, dispPc, awaited, runOutcome, aggregates, launchLog, netLaunch,
             routeLog>>

fetchVars == <<fetchPc, fetchResult, predicted, attempts, pages, capture>>

vars == <<phase, requestQueue, routeStates, planVars, runVars, fetchVars>>

(***************************************************************************)
(* Bounds of the model.                                                    *)
(***************************************************************************)
MaxRoutes == 2     \* routes in a planned list (planner specification)
MaxMonths == 2     \* months chosen for one route
MaxInFlight == 2   \* VA_REQUEST_MAX_IN_FLIGHT ranges over 1..MaxInFlight
MaxJitter == 1     \* VA_REQUEST_DISPATCH_INTERVAL_JITTER_MS ranges over 0..MaxJitter
MaxRetryLimit == 1 \* VA_REQUEST_FAILURE_RETRY_LIMIT ranges over 0..MaxRetryLimit
MaxAbortFailures == 2  \* VA_REQUEST_ABORT_CONSECUTIVE_FAILURES ranges over 1..MaxAbortFailures
DispatchInterval == 1  \* VA_REQUEST_DISPATCH_INTERVAL_MS
MaxFilterRoutes == 3   \* routes handed to filterRoutes
MaxFilters == 2        \* filter tokens handed to filterRoutes

Airports == {"LHR", "JFK", "MAN"}

YearMonth(y, m) == [year |-> y, month |-> m]

\* Months a route may offer; the first two differ in month, the third in year only.
MonthUniverse == <<YearMonth(2026, 11), YearMonth(2026, 12), YearMonth(2027, 11)>>

\* Sorted, duplicate-free month lists (the result of normalizeYearMonths), 1..MaxMonths long.
RECURSIVE IncreasingSeqs(_, _)
IncreasingSeqs(n, lo) ==
  IF n = 0 THEN {<<>>}
  ELSE {<<>>} \cup
       UNION {{<<i>> \o s : s \in IncreasingSeqs(n - 1, i + 1)} : i \in lo..Len(MonthUniverse)}

MonthLists ==
  {[k \in 1..Len(s) |-> MonthUniverse[s[k]]] :
     s \in {t \in IncreasingSeqs(MaxMonths, 1) : Len(t) >= 1}}

Route(code, originCode, destinationCode, months) ==
  [code |-> code, originCode |-> originCode, destinationCode |-> destinationCode,
   months |-> months]

\* Routes as scrapeDestinations builds them (both endpoint fields set), routes that
\* carry only a code (as in tests/filters), and a malformed route without endpoints.
RouteUniverse ==
  {Route(<<o, d>>, o, d, ms) :
     o \in {"LHR", "JFK"}, d \in {"JFK", "LHR"}, ms \in MonthLists}
  \cup {Route(<<"MAN", "JFK">>, "", "", ms) : ms \in MonthLists}
  \cup {Route(<<"MAN">>, "", "", ms) : ms \in MonthLists}

RECURSIVE RouteLists(_)
RouteLists(n) ==
  IF n = 0 THEN {<<>>}
  ELSE LET shorter == RouteLists(n - 1)
       IN shorter \cup
          {Append(l, r) : l \in {s \in shorter : Len(s) = n - 1}, r \in RouteUniverse}

\* route.code is unique in a route list (scrape/destinations.ts routeCodes set).
DistinctCodes(l) == \A i, j \in 1..Len(l) : l[i].code = l[j].code => i = j

(***************************************************************************)
(* filters: getRouteEndpoints                                              *)
(***************************************************************************)
ToUpperCase(s) ==
  CASE s = "lhr" -> "LHR"
    [] s = "jfk" -> "JFK"
    [] s = "man" -> "MAN"
    [] s = "lh" -> "LH"
    [] OTHER -> s

GetRouteEndpoints(route) ==
  LET fallbackOrigin == IF Len(route.code) >= 1 THEN route.code[1] ELSE ""
      fallbackDestination == IF Len(route.code) >= 2 THEN route.code[2] ELSE ""
  IN [originCode |->
        ToUpperCase(IF route.originCode # "" THEN route.originCode ELSE fallbackOrigin),
      destinationCode |->
        ToUpperCase(IF route.destinationCode # "" THEN route.destinationCode
                    ELSE fallbackDestination)]

(***************************************************************************)
(* filters: routeMatchesAnyFilter and filterRoutes. A filter token is, like *)
(* a route code, the sequence of its "-"-separated segments: it includes a *)
(* "-" when it has two segments or more.                                   *)
(***************************************************************************)
\* s.length for the airport strings of the model.
StringLength(s) ==
  CASE s = "" -> 0
    [] s \in {"LH", "lh"} -> 2
    [] OTHER -> 3

\* code.toUpperCase() of a route code or token.
CodeToUpperCase(code) == [k \in 1..Len(code) |-> ToUpperCase(code[k])]

\* A filter that compares airport tokens with the origin only.
RouteMatchesOriginOnly(route, filters) ==
  IF Len(filters) = 0 THEN TRUE
  ELSE LET routeCode == CodeToUpperCase(route.code)
           endpoints == GetRouteEndpoints(route)
       IN \E k \in 1..Len(filters) :
            LET token == CodeToUpperCase(filters[k])
            IN IF Len(token) >= 2
               THEN routeCode = token
               ELSE /\ Len(token) = 1
                    /\ StringLength(token[1]) = 3
                    /\ endpoints.originCode = token[1]

\* filters.ts:15-35.
RouteMatchesAnyFilter(route, filters) ==
  IF Len(filters) = 0 THEN TRUE
  ELSE LET routeCode == CodeToUpperCase(route.code)
           endpoints == GetRouteEndpoints(route)
       IN \E k \in 1..Len(filters) :
            LET token == CodeToUpperCase(filters[k])
            IN IF Len(token) >= 2
               THEN routeCode = token
               ELSE /\ Len(token) = 1
                    /\ StringLength(token[1]) = 3
                    /\ \/ endpoints.originCode = token[1]
                       \/ endpoints.destinationCode = token[1]

\* filters.ts:37-40.
FilterRoutes(routes, filters) ==
  IF Len(filters) = 0 THEN routes
  ELSE SelectSeq(routes, LAMBDA route : RouteMatchesAnyFilter(route, filters))

(***************************************************************************)
(* JavaScript values, month data and the cache (shared/types.ts,           *)
(* shared/utils/month-data.ts, shared/utils/validation.ts, cache.ts)       *)
(*                                                                         *)
(* Time is counted in minutes. A property of an object is a Field: absent, *)
(* present with the value undefined, present with null, or present with a  *)
(* value v (without a value, v is the default of the property's type).     *)
(***************************************************************************)
CACHE_SCHEMA_VERSION == 1
cacheMaxAgeMs == 60     \* cli.ts:59, one hour
CACHE_MAX_AGE_MS == 60  \* scraper/month.ts:7, one hour

Field(has, v) == [has |-> has, v |-> v]
Absent(v) == Field("absent", v)
Undefined(v) == Field("undefined", v)
Null(v) == Field("null", v)
Value(v) == Field("value", v)

\* x === undefined
IsUndefined(x) == x.has \in {"absent", "undefined"}

\* What JSON.stringify followed by JSON.parse makes of a property: a property whose
\* value is undefined is not written.
JsonField(x) == IF x.has = "undefined" THEN Absent(x.v) ELSE x

JsonDay(day) == [f \in DOMAIN day |-> JsonField(day[f])]

JsonMonthData(monthData) == [d \in DOMAIN monthData |-> JsonDay(monthData[d])]

NoDays == [d \in {} |-> 0]

\* A value handed to or read from the cache: null, an array, or an object keyed by
\* date (days); JsonValue is its image under JSON.stringify and JSON.parse.
NullData == [type |-> "null", days |-> NoDays]
ArrayData == [type |-> "array", days |-> NoDays]
ObjectData(monthData) == [type |-> "object", days |-> monthData]
JsonValue(value) == [type |-> value.type, days |-> JsonMonthData(value.days)]

\* month-data.ts:13-20.
HasMissingSeatCounts(monthData) ==
  \E d \in DOMAIN monthData :
    LET day == monthData[d]
    IN \/ ~IsUndefined(day.economy) /\ IsUndefined(day.economySeats)
       \/ ~IsUndefined(day.premium) /\ IsUndefined(day.premiumSeats)
       \/ ~IsUndefined(day.upper) /\ IsUndefined(day.upperSeats)

\* /^\d{4}-\d{2}-\d{2}$/.test(date) on the date keys of the model.
DateMatches(date) ==
  CASE date = "bad-date" -> FALSE
    [] OTHER -> TRUE

IsOptional(x) == x.has \in {"absent", "undefined", "value"}
IsOptionalOrNull(x) == x.has \in {"absent", "undefined", "null", "value"}

\* isMonthDataDay: every cabin property is undefined or of its type; minPrice and
\* currency may also be null.
IsMonthDataDay(day) ==
  /\ \A f \in {"economy", "premium", "upper", "economySeats", "premiumSeats", "upperSeats",
               "economySeatsDisplay", "premiumSeatsDisplay", "upperSeatsDisplay",
               "economyIsSaver", "premiumIsSaver", "upperIsSaver",
               "minAwardPointsTotal"} : IsOptional(day[f])
  /\ IsOptionalOrNull(day.minPrice)
  /\ IsOptionalOrNull(day.currency)

\* isMonthData.
IsMonthData(value) ==
  /\ value.type = "object"
  /\ \A d \in DOMAIN value.days : DateMatches(d) /\ IsMonthDataDay(value.days[d])

\* A file of the cache directory: parses is whether JSON.parse accepts its text,
\* isEnvelope whether the parsed value passes isCacheEnvelope.
File(mtime, parses, isEnvelope, schemaVersion, writtenAt, data) ==
  [exists |-> TRUE, mtime |-> mtime, parses |-> parses, isEnvelope |-> isEnvelope,
   schemaVersion |-> schemaVersion, writtenAt |-> writtenAt, data |-> data]

NoFile ==
  [exists |-> FALSE, mtime |-> 0, parses |-> FALSE, isEnvelope |-> FALSE,
   schemaVersion |-> 0, writtenAt |-> 0, data |-> NullData]

CacheFile(files, filename) == IF filename \in DOMAIN files THEN files[filename] ELSE NoFile

\* cache.ts:60-66.
CacheExists(files, filename) == CacheFile(files, filename).exists

\* A reader that serves an envelope of any version.
ReadCacheAnyVersion(files, filename, validate, expectedVersion) ==
  LET file == CacheFile(files, filename)
  IN IF ~file.exists THEN NullData
     ELSE IF ~file.parses THEN NullData
     ELSE IF ~file.isEnvelope THEN NullData
     ELSE IF validate /\ ~IsMonthData(file.data) THEN NullData
     ELSE file.data

\* cache.ts:78-113; validate is whether the isMonthData validator is passed. The
\* result NullData is the return value null.
ReadCache(files, filename, validate, expectedVersion) ==
  LET file == CacheFile(files, filename)
  IN IF ~file.exists THEN NullData
     ELSE IF ~file.parses THEN NullData
     ELSE IF ~file.isEnvelope THEN NullData
     ELSE IF file.schemaVersion # expectedVersion THEN NullData
     ELSE IF validate /\ ~IsMonthData(file.data) THEN NullData
     ELSE file.data

\* cache.ts:115-124 at time t.
WriteCache(files, filename, data, t) ==
  [k \in DOMAIN files \cup {filename} |->
     IF k = filename
     THEN File(t, TRUE, TRUE, CACHE_SCHEMA_VERSION, t, JsonValue(data))
     ELSE files[k]]

\* A FetchMonthResult (scraper/month.ts:26-32); failReason is <<>> when undefined.
FetchMonthResult(status, monthData, failReason, usedFallback, fromCache) ==
  [status |-> status, monthData |-> monthData, failReason |-> failReason,
   usedFallback |-> usedFallback, fromCache |-> fromCache]

NoFetchResult == FetchMonthResult("none", NoDays, <<>>, Absent(FALSE), Absent(FALSE))

\* A cache directory with a complete entry, written at time 0, for each of the keys.
FreshFiles(keys) ==
  [k \in keys |-> File(0, TRUE, TRUE, CACHE_SCHEMA_VERSION, 0, ObjectData(NoDays))]

(***************************************************************************)
(* Month request planner (cli.ts:122-192)                                  *)
(***************************************************************************)
RequestKey(requestOrigin, requestDestination, year, month) ==
  <<requestOrigin, requestDestination, year, month>>

IndexOfKey(queue, key) ==
  IF \E i \in 1..Len(queue) : queue[i].key = key
  THEN CHOOSE i \in 1..Len(queue) : queue[i].key = key
  ELSE 0

\* A planner that forgets the year in the request key.
AddRequestNoYear(queue, routeCode, type, monthIndex, month, year, requestOrigin, requestDestination, likelyCacheHit) ==
  LET requestKey == RequestKey(requestOrigin, requestDestination, 0, month)
      dep == [routeCode |-> routeCode, type |-> type, monthIndex |-> monthIndex]
      existing == IndexOfKey(queue, requestKey)
  IN IF existing # 0
     THEN [queue EXCEPT ![existing].dependents = Append(@, dep),
                        ![existing].likelyCacheHit = @ /\ likelyCacheHit]
     ELSE Append(queue,
                 [key |-> requestKey,
                  requestOrigin |-> requestOrigin,
                  requestDestination |-> requestDestination,
                  month |-> month, year |-> year,
                  likelyCacheHit |-> likelyCacheHit,
                  dependents |-> <<dep>>])

\* A planner that forgets the dependent of a leg whose request is already planned.
AddRequestDropsMerged(queue, routeCode, type, monthIndex, month, year, requestOrigin, requestDestination, likelyCacheHit) ==
  LET requestKey == RequestKey(requestOrigin, requestDestination, year, month)
      dep == [routeCode |-> routeCode, type |-> type, monthIndex |-> monthIndex]
      existing == IndexOfKey(queue, requestKey)
  IN IF existing # 0
     THEN queue
     ELSE Append(queue,
                 [key |-> requestKey,
                  requestOrigin |-> requestOrigin,
                  requestDestination |-> requestDestination,
                  month |-> month, year |-> year,
                  likelyCacheHit |-> likelyCacheHit,
                  dependents |-> <<dep>>])

\* A planner that merges only the legs of one route.
AddRequestPerRoute(queue, routeCode, type, monthIndex, month, year, requestOrigin, requestDestination, likelyCacheHit) ==
  LET requestKey == RequestKey(requestOrigin, requestDestination, year, month)
      dep == [routeCode |-> routeCode, type |-> type, monthIndex |-> monthIndex]
      own == {i \in 1..Len(queue) : /\ queue[i].key = requestKey
                                    /\ queue[i].dependents[1].routeCode = routeCode}
  IN IF own # {}
     THEN [queue EXCEPT ![CHOOSE i \in own : TRUE].dependents = Append(@, dep),
                        ![CHOOSE i \in own : TRUE].likelyCacheHit = @ /\ likelyCacheHit]
     ELSE Append(queue,
                 [key |-> requestKey,
                  requestOrigin |-> requestOrigin,
                  requestDestination |-> requestDestination,
                  month |-> month, year |-> year,
                  likelyCacheHit |-> likelyCacheHit,
                  dependents |-> <<dep>>])

\* A planner that queues a request for every leg.
AddRequestNeverMerges(queue, routeCode, type, monthIndex, month, year, requestOrigin, requestDestination, likelyCacheHit) ==
  Append(queue,
         [key |-> RequestKey(requestOrigin, requestDestination, year, month),
          requestOrigin |-> requestOrigin,
          requestDestination |-> requestDestination,
          month |-> month, year |-> year,
          likelyCacheHit |-> likelyCacheHit,
          dependents |-> <<[routeCode |-> routeCode, type |-> type,
                            monthIndex |-> monthIndex]>>])

\* cli.ts:139-170.
AddRequest(queue, routeCode, type, monthIndex, month, year, requestOrigin, requestDestination, likelyCacheHit) ==
  LET requestKey == RequestKey(requestOrigin, requestDestination, year, month)
      dep == [routeCode |-> routeCode, type |-> type, monthIndex |-> monthIndex]
      existing == IndexOfKey(queue, requestKey)
  IN IF existing # 0
     THEN [queue EXCEPT ![existing].dependents = Append(@, dep),
                        ![existing].likelyCacheHit = @ /\ likelyCacheHit]
     ELSE Append(queue,
                 [key |-> requestKey,
                  requestOrigin |-> requestOrigin,
                  requestDestination |-> requestDestination,
                  month |-> month, year |-> year,
                  likelyCacheHit |-> likelyCacheHit,
                  dependents |-> <<dep>>])

\* An oracle whose freshness window ends one minute early.
WillUseMonthCacheStrictAge(refresh, files, key, t) ==
  IF refresh THEN FALSE
  ELSE IF ~CacheExists(files, key) THEN FALSE
  ELSE LET cached == ReadCache(files, key, TRUE, CACHE_SCHEMA_VERSION)
       IN IF cached.type = "null" THEN FALSE
          ELSE IF HasMissingSeatCounts(cached.days) THEN FALSE
          ELSE t - CacheFile(files, key).mtime < cacheMaxAgeMs

\* cli.ts:38-61 at time t; files is the raw-months directory of the cache, keyed by
\* request key (getMonthCacheFilename is one-to-one on keys).
WillUseMonthCache(refresh, files, key, t) ==
  IF refresh THEN FALSE
  ELSE IF ~CacheExists(files, key) THEN FALSE
  ELSE LET cached == ReadCache(files, key, TRUE, CACHE_SCHEMA_VERSION)
       IN IF cached.type = "null" THEN FALSE
          ELSE IF HasMissingSeatCounts(cached.days) THEN FALSE
          ELSE t - CacheFile(files, key).mtime <= cacheMaxAgeMs

\* The leg-th addRequest call of a route (leg = 0, 1, ...): months in order, outbound
\* before inbound (cli.ts:172-189).
PlanLeg(queue, route, leg, refresh, files, t) ==
  LET endpoints == GetRouteEndpoints(route)
      monthIndex == leg \div 2
      m == route.months[monthIndex + 1]
      outbound == (leg % 2 = 0)
      o == IF outbound THEN endpoints.originCode ELSE endpoints.destinationCode
      d == IF outbound THEN endpoints.destinationCode ELSE endpoints.originCode
  IN AddRequest(queue, route.code, IF outbound THEN "outbound" ELSE "inbound",
                monthIndex, m.month, m.year, o, d,
                WillUseMonthCache(refresh, files, RequestKey(o, d, m.year, m.month), t))

\* A test that asks for the origin only.
RouteIsValidOriginOnly(route) == GetRouteEndpoints(route).originCode # ""

\* cli.ts:123-124: both endpoints are known.
RouteIsValid(route) ==
  LET endpoints == GetRouteEndpoints(route)
  IN endpoints.originCode # "" /\ endpoints.destinationCode # ""

\* An array slot is <<>> while it is a hole of new Array(n) and <<m>> once m is stored.
Hole == <<>>

\* A route state that counts one pending request per month.
NewRouteStateOnePerMonth(route) ==
  [route |-> route,
   outbound |-> [k \in 0..(Len(route.months) - 1) |-> Hole],
   inbound |-> [k \in 0..(Len(route.months) - 1) |-> Hole],
   pendingRequests |-> Len(route.months),
   completed |-> FALSE]

\* cli.ts:129-137.
NewRouteState(route) ==
  [route |-> route,
   outbound |-> [k \in 0..(Len(route.months) - 1) |-> Hole],
   inbound |-> [k \in 0..(Len(route.months) - 1) |-> Hole],
   pendingRequests |-> Len(route.months) * 2,
   completed |-> FALSE]

\* routeStates.set(route.code, routeState)
SetRouteState(states, route) ==
  [c \in (DOMAIN states) \cup {route.code} |->
     IF c = route.code THEN NewRouteState(route) ELSE states[c]]

EmptyMap == [c \in {} |-> 0]

MapSet(map, key, value) ==
  [c \in (DOMAIN map) \cup {key} |-> IF c = key THEN value ELSE map[c]]

NoResult == [status |-> "none"]

\* A task before its launch. runs, chained, rewarms and resolution are history: the
\* outcomes of its scrapeMonth calls, whether a rewarm was executing at each of its
\* withRewarmLock calls, the outcomes of its own rewarmScrapeSession executions, and
\* (once resolved) its place in the order of resolutions with the month data it
\* resolved with.
NewTask == [pc |-> "queued", retry |-> 0, runs |-> <<>>, chained |-> <<>>,
            rewarms |-> <<>>, resolution |-> <<>>, result |-> NoResult]

\* The dispatch loop awaits nothing: at is the wake time of a sleep, tasks the tasks of
\* a Promise.race or Promise.all, windowAt and jitterMs the window just taken.
NoAwait == [at |-> 0, tasks |-> {}, windowAt |-> 0, jitterMs |-> 0]

\* No fallback page was opened yet: opened lists, page by page, the attempt <<task,
\* call>> each page was opened for, open holds the pages not yet closed.
NoPages == [opened |-> <<>>, open |-> {}]

\* No browser fallback is under way.
NoCapture == [pc |-> "off"]

\* cli.ts:31-32: the names of the two aggregate cache entries.
SCRAPE_METADATA_CACHE == "aggregates/scrape-metadata.json"
FLIGHTS_DATASET_CACHE == "aggregates/flights-dataset.json"

\* No aggregate entry exists, and the run has written none.
NoAggregates == [files |-> EmptyMap, writes |-> <<>>]

\* cache.ts:115-124: writeCache replaces the entry of that name; writes is history.
WriteAggregate(agg, name, value) ==
  [files |-> MapSet(agg.files, name, value), writes |-> Append(agg.writes, name)]

\* The entries an earlier run left: its manifest and its dataset, for one route with a
\* date of the month before.
LeftByPreviousRun ==
  LET code == <<"LHR", "LHR">>
      months == <<YearMonth(2026, 10)>>
      monthData == {RequestKey("LHR", "LHR", 2026, 10)}
      manifest == [destinations |-> <<Route(code, "LHR", "LHR", months)>>,
                   destinationMonths |-> [c \in {code} |-> months]]
      dataset == [c \in {code} |-> [outbound |-> <<<<monthData>>>>, inbound |-> <<<<monthData>>>>]]
  IN WriteAggregate(WriteAggregate(NoAggregates, SCRAPE_METADATA_CACHE, manifest),
                    FLIGHTS_DATASET_CACHE, dataset)

\* The aggregate entries at the start of a run: those of an earlier run where the
\* cache directory holds month files, none in an empty cache directory.
AggregatesBefore(files) ==
  IF DOMAIN files = {} THEN NoAggregates
  ELSE [LeftByPreviousRun EXCEPT !.writes = <<>>]

\* cli.ts:207-219: the run state before the first dispatch.
InitRunState(config) ==
  /\ destinationData = EmptyMap
  /\ cfg = config
  /\ now = 1
  /\ counters = [completedRequests |-> 0, successfulRequests |-> 0, emptyRequests |-> 0,
                 failedRequests |-> 0, fallbackRequests |-> 0, cachedRequests |-> 0]
  /\ consecutiveFailedRequests = 0
  /\ nextQueueIndex = 0
  /\ nextDispatchAt = 0
  /\ activeTasks = {}
  /\ abortError = 0
  /\ rewarmLock = <<>>
  /\ rewarming = {}
  /\ task = <<>>
  /\ dispPc = "loop"
  /\ awaited = NoAwait
  /\ runOutcome = "running"
  /\ launchLog = <<>>
  /\ netLaunch = [item |-> 0, windowAt |-> 0, jitterMs |-> 0]
  /\ routeLog = EmptyMap

InitPlanWith(routes, fresh, files, kinds, config) ==
  /\ phase = "plan"
  /\ allRoutes = routes
  /\ requestedRoutes = <<>>
  /\ targetRoutes = routes
  /\ forceFresh = fresh
  /\ cacheFiles = files
  /\ fetchKinds = kinds
  /\ planRoute = 1
  /\ planLeg = 0
  /\ requestQueue = <<>>
  /\ routeStates = EmptyMap
  /\ InitRunState(config)
  /\ aggregates = AggregatesBefore(files)
  /\ fetchPc = "off"
  /\ fetchResult = NoFetchResult
  /\ predicted = FALSE
  /\ attempts = <<>>
  /\ pages = NoPages
  /\ capture = NoCapture

\* cli.ts:124-127: a route without endpoints is skipped.
PlanSkipRoute ==
  /\ phase = "plan"
  /\ planRoute <= Len(targetRoutes)
  /\ ~RouteIsValid(targetRoutes[planRoute])
  /\ planRoute' = planRoute + 1
  /\ UNCHANGED <<phase, allRoutes, requestedRoutes, targetRoutes, forceFresh, fetchKinds,
                 cacheFiles, planLeg, requestQueue,
                 routeStates, runVars, fetchVars>>

\* cli.ts:129-137 (on the route's first leg) and one addRequest call.
PlanAddRequest ==
  /\ phase = "plan"
  /\ planRoute <= Len(targetRoutes)
  /\ LET route == targetRoutes[planRoute]
         last == (planLeg + 1 = 2 * Len(route.months))
     IN /\ RouteIsValid(route)
        /\ requestQueue' = PlanLeg(requestQueue, route, planLeg, forceFresh, cacheFiles, now)
        /\ routeStates' = IF planLeg = 0 THEN SetRouteState(routeStates, route)
                          ELSE routeStates
        /\ planLeg' = IF last THEN 0 ELSE planLeg + 1
        /\ planRoute' = IF last THEN planRoute + 1 ELSE planRoute
  /\ UNCHANGED <<phase, allRoutes, requestedRoutes, targetRoutes, forceFresh, fetchKinds,
                 cacheFiles, runVars, fetchVars>>

\* cli.ts:192-205: the queue is frozen; an empty queue ends the run with an error.
PlanDone ==
  /\ phase = "plan"
  /\ planRoute > Len(targetRoutes)
  /\ phase' = IF Len(requestQueue) = 0 THEN "ended" ELSE "dispatch"
  /\ runOutcome' = IF Len(requestQueue) = 0 THEN "noRequests" ELSE runOutcome
  /\ dispPc' = IF Len(requestQueue) = 0 THEN "ended" ELSE dispPc
  /\ task' = [i \in 1..Len(requestQueue) |-> NewTask]
  /\ routeLog' = [c \in DOMAIN routeStates |-> [evaluated |-> 0, emitted |-> 0]]
  /\ UNCHANGED <<requestQueue, routeStates, planVars, fetchVars, aggregates, destinationData, cfg, now,
                 counters, consecutiveFailedRequests, nextQueueIndex, nextDispatchAt,
                 activeTasks, abortError, rewarmLock, rewarming, awaited, launchLog,
                 netLaunch>>

(***************************************************************************)
(* The fetch protocol as the dispatcher sees it (scraper/month.ts)         *)
(***************************************************************************)
\* The month data of a request that found availability: one date, tagged with the
\* request key, so that the data of different requests differ.
DataOf(item) == {item.key}

\* What one scrapeMonth call may return (month.ts:280-284, 316, 327). kinds limits
\* the paths the environment lets it take: "cache" (an answer from the cache, never
\* when forced fresh), "direct" (an answer to a direct API call) and "fallback" (the
\* browser fallback, which every failed result has gone through).
ScrapeMonthResults(item, refresh, kinds) ==
  LET Result(st, data, fallback, cached) ==
        [status |-> st, monthData |-> data, usedFallback |-> fallback,
         fromCache |-> cached]
  IN (IF "direct" \in kinds
      THEN {Result("success", DataOf(item), FALSE, FALSE), Result("empty", {}, FALSE, FALSE)}
      ELSE {})
     \cup (IF "fallback" \in kinds
          THEN {Result("success", DataOf(item), TRUE, FALSE), Result("empty", {}, TRUE, FALSE),
                Result("failed", {}, TRUE, FALSE)}
          ELSE {})
     \cup (IF "cache" \in kinds /\ ~refresh
          THEN {Result("success", DataOf(item), FALSE, TRUE), Result("empty", {}, FALSE, TRUE)}
          ELSE {})

\* cli.ts:310-316: the result that stands for an exception out of runQueueItem.
UnhandledErrorResult ==
  [status |-> "failed", monthData |-> {}, usedFallback |-> FALSE, fromCache |-> FALSE]

(***************************************************************************)
(* Resolution of a task (cli.ts:318-372)                                   *)
(***************************************************************************)
\* Counters that keep empty months apart from successful ones.
CountResultEmptyApart(c, result) ==
  [c EXCEPT
     !.completedRequests = @ + 1,
     !.fallbackRequests = IF result.usedFallback THEN @ + 1 ELSE @,
     !.cachedRequests = IF result.fromCache THEN @ + 1 ELSE @,
     !.failedRequests = IF result.status = "failed" THEN @ + 1 ELSE @,
     !.successfulRequests = IF result.status = "success" THEN @ + 1 ELSE @,
     !.emptyRequests = IF result.status = "empty" THEN @ + 1 ELSE @]

\* cli.ts:318-336, the progress counters.
CountResult(c, result) ==
  [c EXCEPT
     !.completedRequests = @ + 1,
     !.fallbackRequests = IF result.usedFallback THEN @ + 1 ELSE @,
     !.cachedRequests = IF result.fromCache THEN @ + 1 ELSE @,
     !.failedRequests = IF result.status = "failed" THEN @ + 1 ELSE @,
     !.successfulRequests = IF result.status # "failed" THEN @ + 1 ELSE @,
     !.emptyRequests = IF result.status = "empty" THEN @ + 1 ELSE @]

\* A counter that a non-failed resolution leaves alone.
NextConsecutiveNoReset(consecutive, result) ==
  IF result.status = "failed" THEN consecutive + 1 ELSE consecutive

\* cli.ts:324 and 332.
NextConsecutive(consecutive, result) ==
  IF result.status = "failed" THEN consecutive + 1 ELSE 0

\* A breaker that a non-failed resolution closes again.
NextAbortErrorCleared(consecutive, abortErr, result) ==
  IF result.status # "failed" THEN 0
  ELSE IF consecutive >= cfg.abortConsecutiveFailures /\ abortErr = 0 THEN consecutive
  ELSE abortErr

\* cli.ts:325-329: the abort error after a resolution that left the counter at
\* consecutive.
NextAbortError(consecutive, abortErr, result) ==
  IF /\ result.status = "failed"
     /\ consecutive >= cfg.abortConsecutiveFailures
     /\ abortErr = 0
  THEN consecutive
  ELSE abortErr

\* A test that looks at the outbound slots only.
HasDataOutboundOnly(routeState) ==
  \E k \in DOMAIN routeState.outbound :
    routeState.outbound[k] # Hole /\ routeState.outbound[k][1] # {}

\* cli.ts:360-361: Object.keys(m || {}).length > 0 for some slot.
HasData(routeState) ==
  \/ \E k \in DOMAIN routeState.outbound :
       routeState.outbound[k] # Hole /\ routeState.outbound[k][1] # {}
  \/ \E k \in DOMAIN routeState.inbound :
       routeState.inbound[k] # Hole /\ routeState.inbound[k][1] # {}

\* A test that fires at the first dependent.
RouteCompletesAtOnce(routeState) == ~routeState.completed

\* A test that fires one dependent early.
RouteCompletesEarly(routeState) ==
  ~routeState.completed /\ routeState.pendingRequests <= 1

\* cli.ts:358.
RouteCompletes(routeState) ==
  ~routeState.completed /\ routeState.pendingRequests = 0

\* A fan-out that stores every month in the outbound array.
FanOutOneOutboundSlot(acc, dependent, monthData) ==
  IF dependent.routeCode \notin DOMAIN acc.states
  THEN acc
  ELSE LET rs0 == acc.states[dependent.routeCode]
           rs1 == [rs0 EXCEPT !.outbound[dependent.monthIndex] = <<monthData>>]
           rs2 == [rs1 EXCEPT !.pendingRequests = @ - 1]
           evaluate == RouteCompletes(rs2)
           rs3 == IF evaluate THEN [rs2 EXCEPT !.completed = TRUE] ELSE rs2
           emit == evaluate /\ HasData(rs3)
       IN [states |-> [acc.states EXCEPT ![dependent.routeCode] = rs3],
           data |-> IF emit
                    THEN MapSet(acc.data, rs3.route.code,
                                [outbound |-> rs3.outbound, inbound |-> rs3.inbound])
                    ELSE acc.data,
           log |-> [acc.log EXCEPT
                      ![dependent.routeCode].evaluated = IF evaluate THEN @ + 1 ELSE @,
                      ![dependent.routeCode].emitted = IF emit THEN @ + 1 ELSE @]]

\* cli.ts:351-371 for one dependent; acc holds routeStates, destinationData and the
\* route history.
FanOutOne(acc, dependent, monthData) ==
  IF dependent.routeCode \notin DOMAIN acc.states
  THEN acc
  ELSE LET rs0 == acc.states[dependent.routeCode]
           rs1 == IF dependent.type = "outbound"
                  THEN [rs0 EXCEPT !.outbound[dependent.monthIndex] = <<monthData>>]
                  ELSE [rs0 EXCEPT !.inbound[dependent.monthIndex] = <<monthData>>]
           rs2 == [rs1 EXCEPT !.pendingRequests = @ - 1]
           evaluate == RouteCompletes(rs2)
           rs3 == IF evaluate THEN [rs2 EXCEPT !.completed = TRUE] ELSE rs2
           emit == evaluate /\ HasData(rs3)
       IN [states |-> [acc.states EXCEPT ![dependent.routeCode] = rs3],
           data |-> IF emit
                    THEN MapSet(acc.data, rs3.route.code,
                                [outbound |-> rs3.outbound, inbound |-> rs3.inbound])
                    ELSE acc.data,
           log |-> [acc.log EXCEPT
                      ![dependent.routeCode].evaluated = IF evaluate THEN @ + 1 ELSE @,
                      ![dependent.routeCode].emitted = IF emit THEN @ + 1 ELSE @]]

\* cli.ts:347-372.
RECURSIVE FanOut(_, _, _, _)
FanOut(acc, dependents, k, monthData) ==
  IF k > Len(dependents) THEN acc
  ELSE FanOut(FanOutOne(acc, dependents[k], monthData), dependents, k + 1, monthData)

\* cli.ts:318-372: task i resolves with result; t is its task record.
Resolve(i, t, result) ==
  LET consecutive == NextConsecutive(consecutiveFailedRequests, result)
      fan == FanOut([states |-> routeStates, data |-> destinationData, log |-> routeLog],
                    requestQueue[i].dependents, 1, result.monthData)
  IN /\ counters' = CountResult(counters, result)
     /\ consecutiveFailedRequests' = consecutive
     /\ abortError' = NextAbortError(consecutive, abortError, result)
     /\ routeStates' = fan.states
     /\ destinationData' = fan.data
     /\ routeLog' = fan.log
     /\ task' = [task EXCEPT ![i] =
                   [t EXCEPT !.pc = "resolved", !.result = NoResult,
                             !.resolution = <<[seq |-> counters.completedRequests + 1,
                                               monthData |-> result.monthData]>>]]

(***************************************************************************)
(* runQueueItem and the rewarm lock (cli.ts:225-303)                       *)
(***************************************************************************)
\* A loop test that allows one retry more.
RetryLoopContinuesInclusive(retry) == retry <= cfg.requestFailureRetryLimit

\* cli.ts:283: the loop test retry < requestFailureRetryLimit.
RetryLoopContinues(retry) == retry < cfg.requestFailureRetryLimit

\* A lock that lets every chained run start at once.
LockGrantedAlways(i) == rewarmLock # <<>>

\* A lock whose chain never runs what is chained on it.
LockGrantedNever(i) == FALSE

\* cli.ts:255: a run chained on rewarmLock starts when every run chained before it
\* has finished.
LockGranted(i) == rewarmLock # <<>> /\ Head(rewarmLock) = i

dispatchFrame == <<phase, requestQueue, planVars, fetchVars, cfg, now, nextQueueIndex, nextDispatchAt,
                   activeTasks, dispPc, awaited, runOutcome, aggregates, launchLog, netLaunch>>

resolveFrame == <<counters, consecutiveFailedRequests, abortError, routeStates,
                  destinationData, routeLog>>

\* The paths open to the scrapeMonth calls of task i in this run.
FetchKinds(i) == fetchKinds

\* runQueueItem after a scrapeMonth call of task i returned res (cli.ts:282-300, then
\* 318-372 when the task resolves).
RunQueueItemContinues(i, res) ==
  LET retry == IF Len(task[i].runs) = 0 THEN 0 ELSE task[i].retry + 1
      t == [task[i] EXCEPT !.runs = Append(@, res.status), !.retry = retry,
                           !.result = res]
  IN IF res.status = "failed" /\ RetryLoopContinues(retry)
     THEN /\ task' = [task EXCEPT ![i] = [t EXCEPT !.pc = "lockWait",
                                                !.chained = Append(@, rewarming # {})]]
          /\ rewarmLock' = Append(rewarmLock, i)
          /\ UNCHANGED resolveFrame
     ELSE /\ Resolve(i, t, res)
          /\ UNCHANGED rewarmLock

\* A scrapeMonth call of task i returns (cli.ts:272-300, then 318-372 when the task
\* resolves).
ScrapeMonthReturns(i) ==
  /\ task[i].pc = "scrape"
  /\ \E res \in ScrapeMonthResults(requestQueue[i], forceFresh, FetchKinds(i)) :
       RunQueueItemContinues(i, res)
  /\ UNCHANGED <<dispatchFrame, rewarming>>

\* The attempt a page is opened for: the call-th scrapeMonth call of task i.
FallbackAttempt(i) == <<i, Len(task[i].runs) + 1>>

\* The page open for the running scrapeMonth call of task i.
PageOf(i) == CHOOSE p \in pages.open : pages.opened[p] = FallbackAttempt(i)

\* browser.newPage() for an attempt (month.ts:304).
NewPage(pgs, attempt) ==
  [opened |-> Append(pgs.opened, attempt), open |-> pgs.open \cup {Len(pgs.opened) + 1}]

\* A fallback that leaves its page open.
ClosePageNever(pgs, p) == pgs

\* fallbackPage.close() (month.ts:309).
ClosePage(pgs, p) == [pgs EXCEPT !.open = @ \ {p}]

pageFrame == <<phase, requestQueue, planVars, fetchPc, fetchResult, predicted, attempts,
               capture, cfg, now, nextQueueIndex, nextDispatchAt, activeTasks, dispPc,
               awaited, runOutcome, aggregates, launchLog, netLaunch, rewarming>>

\* The direct attempts of a scrapeMonth call of task i have failed: the call opens a
\* page for the browser fallback (month.ts:299-305).
FallbackOpensPage(i) ==
  /\ task[i].pc = "scrape"
  /\ task' = [task EXCEPT ![i].pc = "fallback"]
  /\ pages' = NewPage(pages, FallbackAttempt(i))
  /\ UNCHANGED <<pageFrame, resolveFrame, rewarmLock>>

\* The browser fallback of task i has ended, with data or failed (it catches what is
\* thrown inside it, month.ts:247-249): the page is closed and scrapeMonth returns
\* (month.ts:307-327).
FallbackReturns(i) ==
  /\ task[i].pc = "fallback"
  /\ pages' = ClosePage(pages, PageOf(i))
  /\ \E res \in ScrapeMonthResults(requestQueue[i], forceFresh, {"fallback"}) :
       RunQueueItemContinues(i, res)
  /\ UNCHANGED pageFrame

\* A scrapeMonth call of task i throws: runQueueItem rejects and the task resolves
\* failed (cli.ts:310-316).
ScrapeMonthThrows(i) ==
  /\ task[i].pc = "scrape"
  /\ Resolve(i, [task[i] EXCEPT !.runs = Append(@, "thrown")], UnhandledErrorResult)
  /\ UNCHANGED <<dispatchFrame, rewarmLock, rewarming>>

\* The run chained by task i starts rewarmScrapeSession (cli.ts:252-255).
RewarmStart(i) ==
  /\ task[i].pc = "lockWait"
  /\ LockGranted(i)
  /\ task' = [task EXCEPT ![i].pc = "rewarm"]
  /\ rewarming' = rewarming \cup {i}
  /\ UNCHANGED <<dispatchFrame, resolveFrame, rewarmLock>>

\* A loop that retries whatever the rewarm returned.
RewarmBreaksNever(rewarmed) == FALSE

\* cli.ts:286: if (!rewarmed) break.
RewarmBreaks(rewarmed) == ~rewarmed

\* rewarmScrapeSession returns rewarmed (cli.ts:225-248) and runQueueItem goes on
\* (cli.ts:285-297).
RewarmFinish(i) ==
  /\ task[i].pc = "rewarm"
  /\ rewarming' = rewarming \ {i}
  /\ rewarmLock' = SelectSeq(rewarmLock, LAMBDA x : x # i)
  /\ \E rewarmed \in BOOLEAN :
       LET t == [task[i] EXCEPT !.rewarms = Append(@, rewarmed)]
       IN IF ~RewarmBreaks(rewarmed)
          THEN /\ task' = [task EXCEPT ![i] = [t EXCEPT !.pc = "scrape"]]
               /\ UNCHANGED resolveFrame
          ELSE Resolve(i, t, task[i].result)
  /\ UNCHANGED dispatchFrame

\* cli.ts:373-375.
TaskFinally(i) ==
  /\ task[i].pc = "resolved"
  /\ task' = [task EXCEPT ![i].pc = "settled"]
  /\ activeTasks' = activeTasks \ {i}
  /\ UNCHANGED <<phase, requestQueue, planVars, fetchVars, cfg, now, nextQueueIndex, nextDispatchAt,
                 dispPc, awaited, runOutcome, aggregates, launchLog, netLaunch, resolveFrame,
                 rewarmLock, rewarming>>

(***************************************************************************)
(* The dispatch loop (cli.ts:380-413)                                      *)
(***************************************************************************)
\* A loop test that admits one task more.
InnerLoopConditionInclusive(index, activeSize) ==
  /\ index < Len(requestQueue)
  /\ activeSize <= cfg.requestMaxInFlight
  /\ abortError = 0

\* cli.ts:382-386.
InnerLoopCondition(index, activeSize) ==
  /\ index < Len(requestQueue)
  /\ activeSize < cfg.requestMaxInFlight
  /\ abortError = 0

\* cli.ts:381.
OuterLoopCondition ==
  (nextQueueIndex < Len(requestQueue) \/ activeTasks # {}) /\ abortError = 0

\* A dispatch window that is always open.
MustSleepNever(dispatchAt, t) == FALSE

\* cli.ts:262.
MustSleep(dispatchAt, t) == dispatchAt > t

\* cli.ts:265-267: the values Math.floor(Math.random() * (jitter + 1)) takes.
JitterValues ==
  IF cfg.dispatchIntervalJitterMs > 0 THEN 0..cfg.dispatchIntervalJitterMs ELSE {0}

\* A loop that sends every item, predicted cache hit or not, through the window.
SyncLaunchCountNone(index, activeSize) == 0

\* Predicted cache hits are launched without an await between them (cli.ts:387-392):
\* how many the loop launches in a row from index on.
RECURSIVE SyncLaunchCount(_, _)
SyncLaunchCount(index, activeSize) ==
  IF InnerLoopCondition(index, activeSize) /\ requestQueue[index + 1].likelyCacheHit
  THEN 1 + SyncLaunchCount(index + 1, activeSize + 1)
  ELSE 0

\* An end of run that looks at the data before the abort error.
EndOutcomeNoDataFirst ==
  IF DOMAIN destinationData = {} THEN "noData"
  ELSE IF abortError # 0 THEN "abort"
  ELSE "ok"

\* An end of run that reports a run without data as a success.
EndOutcomeEmptySuccess ==
  IF abortError # 0 THEN "abort"
  ELSE "ok"

\* cli.ts:404-413: the end of the run.
EndOutcome ==
  IF abortError # 0 THEN "abort"
  ELSE IF DOMAIN destinationData = {} THEN "noData"
  ELSE "ok"

\* cli.ts:404-437: what scrapeToCache hands to its caller and writes to the flights
\* dataset cache: destinationData when the run ends normally, nothing when it throws.
ScrapeToCacheResult(outcome, data) == IF outcome = "ok" THEN data ELSE EmptyMap

\* A manifest that lists every target route.
ScrapeManifestAllRoutes(outcome, routes, data) ==
  IF outcome # "ok" THEN <<>>
  ELSE <<[destinations |-> routes,
          destinationMonths |-> [c \in {routes[k].code : k \in 1..Len(routes)} |->
                                   (CHOOSE r \in {routes[k] : k \in 1..Len(routes)} :
                                      r.code = c).months]]>>

\* cli.ts:415-432: the manifest written to the scrape metadata cache, <<>> when the
\* run threw before line 415.
ScrapeManifest(outcome, routes, data) ==
  IF outcome # "ok" THEN <<>>
  ELSE LET successfulDestinations == SelectSeq(routes, LAMBDA r : r.code \in DOMAIN data)
       IN <<[destinations |-> successfulDestinations,
             destinationMonths |->
               [c \in {successfulDestinations[k].code : k \in 1..Len(successfulDestinations)} |->
                  (CHOOSE r \in {routes[k] : k \in 1..Len(routes)} : r.code = c).months]]>>

\* cache-data.ts:19-27: the Map becomes an object with one property per route code.
SerializeDestinationData(data) == [code \in DOMAIN data |-> data[code]]

\* An end of run that writes whatever data there is, abort or not.
EndAggregatesWithData(agg, outcome, routes, data) ==
  IF DOMAIN data = {} THEN agg
  ELSE WriteAggregate(WriteAggregate(agg, SCRAPE_METADATA_CACHE,
                                     ScrapeManifest("ok", routes, data)[1]),
                      FLIGHTS_DATASET_CACHE, SerializeDestinationData(data))

\* cli.ts:404-433: a run that throws writes nothing; otherwise writeCache of the
\* manifest (432), then writeCache of the serialized dataset (433).
EndAggregates(agg, outcome, routes, data) ==
  IF outcome # "ok" THEN agg
  ELSE WriteAggregate(WriteAggregate(agg, SCRAPE_METADATA_CACHE,
                                     ScrapeManifest(outcome, routes, data)[1]),
                      FLIGHTS_DATASET_CACHE, SerializeDestinationData(data))

\* launchQueueItem (cli.ts:305-309, 377): the task starts its first scrapeMonth call.
Launched(tasks, items) ==
  [i \in DOMAIN tasks |-> IF i \in items THEN [tasks[i] EXCEPT !.pc = "scrape"]
                          ELSE tasks[i]]

RECURSIVE AppendAll(_, _, _)
AppendAll(log, from, to) ==
  IF from > to THEN log ELSE AppendAll(Append(log, from), from + 1, to)

\* The inner loop from index on with the tasks of active in flight, up to its next
\* await: a dispatch window (cli.ts:389) or Promise.race (cli.ts:396); with nothing
\* in flight the outer loop ends too and the run ends (cli.ts:400-413).
InnerLoop(index, active, tasks, log) ==
  LET n == SyncLaunchCount(index, Cardinality(active))
      index2 == index + n
      items == (index + 1)..index2
      active2 == active \cup items
  IN /\ nextQueueIndex' = index2
     /\ activeTasks' = active2
     /\ task' = Launched(tasks, items)
     /\ launchLog' = AppendAll(log, index + 1, index2)
     /\ IF InnerLoopCondition(index2, Cardinality(active2))
        THEN \* the next item is not a predicted cache hit: waitForDispatchWindow
             IF MustSleep(nextDispatchAt, now)
             THEN /\ dispPc' = "sleep"
                  /\ awaited' = [NoAwait EXCEPT !.at = nextDispatchAt]
                  /\ UNCHANGED <<nextDispatchAt, phase, runOutcome, aggregates>>
             ELSE \E jitterMs \in JitterValues :
                    /\ nextDispatchAt' = now + cfg.dispatchIntervalMs + jitterMs
                    /\ dispPc' = "window"
                    /\ awaited' = [NoAwait EXCEPT !.windowAt = now, !.jitterMs = jitterMs]
                    /\ UNCHANGED <<phase, runOutcome, aggregates>>
        ELSE IF active2 # {}
        THEN /\ dispPc' = "race"
             /\ awaited' = [NoAwait EXCEPT !.tasks = active2]
             /\ UNCHANGED <<nextDispatchAt, phase, runOutcome, aggregates>>
        ELSE /\ dispPc' = "ended"
             /\ phase' = "ended"
             /\ runOutcome' = EndOutcome
             /\ aggregates' = EndAggregates(aggregates, EndOutcome, targetRoutes, destinationData)
             /\ awaited' = NoAwait
             /\ UNCHANGED nextDispatchAt

loopFrame == <<requestQueue, planVars, fetchVars, cfg, now, resolveFrame, rewarmLock, rewarming,
               netLaunch>>

\* The loop starts, or resumes after Promise.race (cli.ts:381-402).
DispatcherLoop ==
  /\ phase = "dispatch"
  /\ \/ dispPc = "loop"
     \/ dispPc = "race" /\ awaited.tasks \ activeTasks # {}
  /\ IF OuterLoopCondition
     THEN InnerLoop(nextQueueIndex, activeTasks, task, launchLog)
     ELSE /\ IF activeTasks # {}
             THEN /\ dispPc' = "drain"
                  /\ awaited' = [NoAwait EXCEPT !.tasks = activeTasks]
                  /\ UNCHANGED <<phase, runOutcome, aggregates>>
             ELSE /\ dispPc' = "ended"
                  /\ phase' = "ended"
                  /\ runOutcome' = EndOutcome
                  /\ aggregates' = EndAggregates(aggregates, EndOutcome, targetRoutes, destinationData)
                  /\ awaited' = NoAwait
          /\ UNCHANGED <<nextQueueIndex, activeTasks, task, launchLog, nextDispatchAt>>
  /\ UNCHANGED loopFrame

\* The sleep of waitForDispatchWindow ends (cli.ts:263-268).
DispatcherWake ==
  /\ phase = "dispatch"
  /\ dispPc = "sleep"
  /\ now >= awaited.at
  /\ \E jitterMs \in JitterValues :
       /\ nextDispatchAt' = now + cfg.dispatchIntervalMs + jitterMs
       /\ awaited' = [NoAwait EXCEPT !.windowAt = now, !.jitterMs = jitterMs]
  /\ dispPc' = "window"
  /\ UNCHANGED <<phase, runOutcome, aggregates, nextQueueIndex, activeTasks, task, launchLog,
                 loopFrame>>

\* waitForDispatchWindow has returned: the item is launched and the inner loop goes
\* on (cli.ts:391-392, then 382).
DispatcherLaunch ==
  /\ phase = "dispatch"
  /\ dispPc = "window"
  /\ LET item == nextQueueIndex + 1
     IN /\ netLaunch' = [item |-> item, windowAt |-> awaited.windowAt,
                         jitterMs |-> awaited.jitterMs]
        /\ InnerLoop(item, activeTasks \cup {item}, Launched(task, {item}),
                     Append(launchLog, item))
  /\ UNCHANGED <<requestQueue, planVars, fetchVars, cfg, now, resolveFrame, rewarmLock, rewarming>>

\* Promise.all has resolved (cli.ts:401-413).
DispatcherDrained ==
  /\ phase = "dispatch"
  /\ dispPc = "drain"
  /\ awaited.tasks \cap activeTasks = {}
  /\ dispPc' = "ended"
  /\ phase' = "ended"
  /\ runOutcome' = EndOutcome
  /\ aggregates' = EndAggregates(aggregates, EndOutcome, targetRoutes, destinationData)
  /\ awaited' = NoAwait
  /\ UNCHANGED <<nextQueueIndex, activeTasks, task, launchLog, nextDispatchAt, loopFrame>>

\* Time passes. The program reads the clock only in waitForDispatchWindow, against
\* nextDispatchAt, so the clock is advanced only while that can change what is read:
\* while the window is closed and an item is left to launch. It advances while the
\* loop is suspended on a timer or on Promise.race; the resumption after an await
\* whose promise is already resolved is taken to be immediate.
Tick ==
  /\ phase = "dispatch"
  /\ dispPc \in {"sleep", "race"}
  /\ nextQueueIndex < Len(requestQueue)
  /\ now < nextDispatchAt
  /\ now' = now + 1
  /\ UNCHANGED <<phase, requestQueue, planVars, fetchVars, cfg, nextQueueIndex, nextDispatchAt,
                 activeTasks, dispPc, awaited, runOutcome, aggregates, launchLog, netLaunch,
                 resolveFrame, rewarmLock, rewarming, task>>

(***************************************************************************)
(* The fetch protocol in detail (scraper/month.ts): payload parser, direct *)
(* attempt, browser fallback and scrapeMonth, for one request key          *)
(***************************************************************************)
MaxDays == 2   \* days in a month payload
MaxResponses == 3  \* responses the page sees during one browser fallback

\* An ApiSeatData of a day's seats (types.ts:36-41); present is whether the day's
\* seats object has the cabin at all.
ApiSeatData(present, cabinPointsValue, cabinClassSeatCount) ==
  [present |-> present, cabinPointsValue |-> cabinPointsValue,
   isSaverAward |-> IF present THEN Value(TRUE) ELSE Absent(FALSE),
   cabinClassSeatCount |-> cabinClassSeatCount,
   cabinClassSeatCountString |-> IF present THEN Value("2") ELSE Absent("")]

NoCabin == ApiSeatData(FALSE, Absent(0), Absent(0))

\* An element of pointsDays (types.ts:43-53): null, or a day with or without seats.
ApiPointsDay(isNull, hasSeats, awardEconomy, awardComfortPlusPremiumEconomy, awardBusiness) ==
  [isNull |-> isNull, hasSeats |-> hasSeats,
   seats |-> [awardEconomy |-> awardEconomy,
              awardComfortPlusPremiumEconomy |-> awardComfortPlusPremiumEconomy,
              awardBusiness |-> awardBusiness],
   minPrice |-> IF hasSeats THEN Value(250) ELSE Absent(0),
   currency |-> Value("GBP"),
   minAwardPointsTotal |-> Absent(0)]

\* The days a payload is made of: null, a day without seats, a complete economy cabin,
\* every cabin at zero points, an economy cabin without its seat count, and a day with
\* economy lacking its points, premium at zero points and business on offer.
DayVariants ==
  {ApiPointsDay(TRUE, FALSE, NoCabin, NoCabin, NoCabin),
   ApiPointsDay(FALSE, FALSE, NoCabin, NoCabin, NoCabin),
   ApiPointsDay(FALSE, TRUE, ApiSeatData(TRUE, Value(5000), Value(2)), NoCabin, NoCabin),
   ApiPointsDay(FALSE, TRUE, ApiSeatData(TRUE, Value(0), Value(0)),
                ApiSeatData(TRUE, Value(0), Value(0)), ApiSeatData(TRUE, Value(0), Value(0))),
   ApiPointsDay(FALSE, TRUE, ApiSeatData(TRUE, Value(5000), Absent(0)), NoCabin, NoCabin),
   ApiPointsDay(FALSE, TRUE, ApiSeatData(TRUE, Absent(0), Value(2)),
                ApiSeatData(TRUE, Value(0), Value(0)),
                ApiSeatData(TRUE, Value(20000), Value(4)))}

PayloadDates == <<"2026-11-01", "2026-11-02", "2026-11-03", "2026-11-04">>

RECURSIVE DayLists(_)
DayLists(n) ==
  IF n = 0 THEN {<<>>}
  ELSE LET shorter == DayLists(n - 1)
       IN shorter \cup
          {Append(l, v) : l \in {x \in shorter : Len(x) = n - 1}, v \in DayVariants}

\* A parsed response body: a JSON object, or an array that either wraps the days in
\* its first element's pointsDays (at most one day here) or is the list of days itself.
Payload(json, wrapped, days) == [json |-> json, wrapped |-> wrapped, days |-> days]

Payloads ==
  {Payload("object", FALSE, <<>>)}
  \cup {Payload("array", TRUE, l) : l \in DayLists(1)}
  \cup {Payload("array", FALSE, l) : l \in DayLists(MaxDays)}

\* target.p = source.q: the property is present afterwards, whatever the value.
Assigned(x) == IF x.has = "absent" THEN Undefined(x.v) ELSE x

\* x ?? fallback
Coalesce(x, fallback) == IF x.has = "value" THEN x ELSE fallback

\* A test that also takes a cabin at zero points.
CabinOnOfferFromZero(cabin) ==
  cabin.present /\ cabin.cabinPointsValue.has = "value" /\ cabin.cabinPointsValue.v >= 0

\* month.ts:90, 97, 104: cabin && cabin.cabinPointsValue > 0.
CabinOnOffer(cabin) ==
  cabin.present /\ cabin.cabinPointsValue.has = "value" /\ cabin.cabinPointsValue.v > 0

\* month.ts:83-109: the record stored for a day that has seats.
BuildDay(day, scrapedAt) ==
  LET e == day.seats.awardEconomy
      p == day.seats.awardComfortPlusPremiumEconomy
      u == day.seats.awardBusiness
      Points(c) == IF CabinOnOffer(c) THEN Assigned(c.cabinPointsValue) ELSE Absent(0)
      Seats(c) == IF CabinOnOffer(c) THEN Assigned(c.cabinClassSeatCount) ELSE Absent(0)
      Display(c) == IF CabinOnOffer(c) THEN Assigned(c.cabinClassSeatCountString) ELSE Absent("")
      Saver(c) == IF CabinOnOffer(c) THEN Assigned(c.isSaverAward) ELSE Absent(FALSE)
  IN [scrapedAt |-> Value(scrapedAt),
      minPrice |-> Coalesce(day.minPrice, Null(0)),
      currency |-> Coalesce(day.currency, Null("")),
      minAwardPointsTotal |-> Coalesce(day.minAwardPointsTotal, Value(0)),
      economy |-> Points(e), economySeats |-> Seats(e),
      economySeatsDisplay |-> Display(e), economyIsSaver |-> Saver(e),
      premium |-> Points(p), premiumSeats |-> Seats(p),
      premiumSeatsDisplay |-> Display(p), premiumIsSaver |-> Saver(p),
      upper |-> Points(u), upperSeats |-> Seats(u),
      upperSeatsDisplay |-> Display(u), upperIsSaver |-> Saver(u)]

\* month.ts:62-116; the k-th day of a payload carries the date PayloadDates[k].
BuildMonthDataFromApiPayload(apiResponseRaw, scrapedAt) ==
  IF apiResponseRaw.json # "array"
  THEN FetchMonthResult("failed", NoDays, <<>>, Absent(FALSE), Absent(FALSE))
  ELSE IF ~apiResponseRaw.wrapped /\ Len(apiResponseRaw.days) = 0
  THEN FetchMonthResult("empty", NoDays, <<>>, Absent(FALSE), Absent(FALSE))
  ELSE LET pointsDays == apiResponseRaw.days
           kept == {k \in 1..Len(pointsDays) :
                      ~pointsDays[k].isNull /\ pointsDays[k].hasSeats}
           monthData == [d \in {PayloadDates[k] : k \in kept} |->
                           BuildDay(pointsDays[CHOOSE k \in kept : PayloadDates[k] = d],
                                    scrapedAt)]
       IN FetchMonthResult(IF DOMAIN monthData # {} THEN "success" ELSE "empty",
                           monthData, <<>>, Absent(FALSE), Absent(FALSE))

\* What a request to the carrier comes back with: the call throws, nothing arrives in
\* time (browser path), a response with a status, a body that may not parse, and the
\* parsed payload.
Response(kind, status, snippet, bodyParses, payload) ==
  [kind |-> kind, status |-> status, snippet |-> snippet, bodyParses |-> bodyParses,
   payload |-> payload]

Responses ==
  {Response("throws", 0, "", FALSE, Payload("object", FALSE, <<>>)),
   Response("timeout", 0, "", FALSE, Payload("object", FALSE, <<>>)),
   Response("http", 403, "blocked", FALSE, Payload("object", FALSE, <<>>)),
   Response("http", 500, "", FALSE, Payload("object", FALSE, <<>>)),
   Response("http", 200, "", FALSE, Payload("object", FALSE, <<>>))}
  \cup {Response("http", 200, "", TRUE, body) : body \in Payloads}

\* A failReason string, by its parts.
Reason(text, status, snippet) == <<[text |-> text, status |-> status, snippet |-> snippet]>>

Failed(failReason) ==
  FetchMonthResult("failed", NoDays, failReason, Absent(FALSE), Absent(FALSE))

\* response.ok(): a status in 200..299.
ResponseOk(response) == response.status >= 200 /\ response.status <= 299

\* month.ts:118-179 on the response the request gets (a timeout of the request is a
\* throw of request.post).
FetchMonthDataWithRequest(response, scrapedAt) ==
  IF response.kind \in {"throws", "timeout"} THEN Failed(Reason("error", 0, ""))
  ELSE IF ~ResponseOk(response)
  THEN Failed(Reason("HTTP", response.status, response.snippet))
  ELSE IF ~response.bodyParses THEN Failed(Reason("error", 0, ""))
  ELSE BuildMonthDataFromApiPayload(response.payload, scrapedAt)

\* month.ts:181-250 on what the page's API call comes back with.
FetchMonthDataWithPageFallback(response, scrapedAt) ==
  IF response.kind = "throws" THEN Failed(Reason("error", 0, ""))
  ELSE IF response.kind = "timeout" THEN Failed(Reason("fallback API timeout", 0, ""))
  ELSE IF response.status # 200 THEN Failed(Reason("fallback API HTTP", response.status, ""))
  ELSE IF ~response.bodyParses THEN Failed(Reason("fallback API parse failure", 0, ""))
  ELSE BuildMonthDataFromApiPayload(response.payload, scrapedAt)

\* An upgrade that stamps no day.
AddMissingScrapeTimestampsNever(monthData, fallbackScrapedAt) == monthData

\* month.ts:45-60: days without a capture timestamp get the file's write time.
AddMissingScrapeTimestamps(monthData, fallbackScrapedAt) ==
  [d \in DOMAIN monthData |->
     IF monthData[d].scrapedAt.has = "value" THEN monthData[d]
     ELSE [monthData[d] EXCEPT !.scrapedAt = Value(fallbackScrapedAt)]]

\* month.ts:263-287 at time t: whether the call is answered from the cache, the cache
\* directory afterwards (an upgraded entry is written back) and the answer.
ScrapeMonthCacheCheck(refresh, files, key, t) ==
  LET miss == [hit |-> FALSE, files |-> files, result |-> NoFetchResult]
      cached == ReadCache(files, key, FALSE, CACHE_SCHEMA_VERSION)
  IN IF refresh \/ ~CacheExists(files, key) THEN miss
     ELSE IF cached.type = "null" THEN miss
     ELSE LET mtime == CacheFile(files, key).mtime
              cacheAgeMs == t - mtime
              upgradedCached == [cached EXCEPT
                                   !.days = AddMissingScrapeTimestamps(cached.days, mtime)]
              mutated == upgradedCached # cached
              files1 == IF mutated THEN WriteCache(files, key, upgradedCached, t) ELSE files
          IN IF cacheAgeMs > CACHE_MAX_AGE_MS
             THEN [miss EXCEPT !.files = files1]
             ELSE IF HasMissingSeatCounts(upgradedCached.days)
             THEN [miss EXCEPT !.files = files1]
             ELSE [hit |-> TRUE, files |-> files1,
                   result |-> FetchMonthResult(
                     IF DOMAIN upgradedCached.days # {} THEN "success" ELSE "empty",
                     upgradedCached.days, <<>>, Absent(FALSE), Value(TRUE))]

\* An end of scrapeMonth that caches only the months with dates.
ScrapeMonthFinishSuccessOnly(result, usedFallback, files, key, t) ==
  IF result.status = "failed"
  THEN [files |-> files,
        result |-> FetchMonthResult("failed", NoDays, result.failReason,
                                    Value(usedFallback), Value(FALSE))]
  ELSE [files |-> IF result.status = "success"
                  THEN WriteCache(files, key, ObjectData(result.monthData), t)
                  ELSE files,
        result |-> FetchMonthResult(result.status, result.monthData, <<>>,
                                    Value(usedFallback), Value(FALSE))]

\* month.ts:313-327 at time t: the cache directory afterwards and what is returned.
ScrapeMonthFinish(result, usedFallback, files, key, t) ==
  IF result.status = "failed"
  THEN [files |-> files,
        result |-> FetchMonthResult("failed", NoDays, result.failReason,
                                    Value(usedFallback), Value(FALSE))]
  ELSE [files |-> WriteCache(files, key, ObjectData(result.monthData), t),
        result |-> FetchMonthResult(result.status, result.monthData, <<>>,
                                    Value(usedFallback), Value(FALSE))]

\* The request followed in detail.
FetchKey == RequestKey("LHR", "JFK", 2026, 11)

Attempt(path, response, result) == [path |-> path, response |-> response, result |-> result]

fetchFrame == <<phase, requestQueue, routeStates, allRoutes, requestedRoutes, targetRoutes,
                forceFresh, fetchKinds,
                planRoute, planLeg, runVars, pages, capture>>

\* The planner asks willUseMonthCache about the key (cli.ts:148-154).
FetchOracle ==
  /\ fetchPc = "oracle"
  /\ predicted' = WillUseMonthCache(forceFresh, cacheFiles, FetchKey, now)
  /\ fetchPc' = "scrape"
  /\ UNCHANGED <<fetchFrame, cacheFiles, fetchResult, attempts>>

\* scrapeMonth is called and checks the cache (month.ts:261-289).
ScrapeMonthStart ==
  /\ fetchPc = "scrape"
  /\ LET check == ScrapeMonthCacheCheck(forceFresh, cacheFiles, FetchKey, now)
     IN /\ cacheFiles' = check.files
        /\ fetchResult' = check.result
        /\ fetchPc' = IF check.hit THEN "done" ELSE "direct"
  /\ UNCHANGED <<fetchFrame, predicted, attempts>>

\* A direct attempt whose failure goes to the browser fallback at once.
ScrapeMonthDirectNoRetry ==
  /\ fetchPc = "direct"
  /\ \E response \in Responses :
       LET result == FetchMonthDataWithRequest(response, now)
           end == ScrapeMonthFinish(result, FALSE, cacheFiles, FetchKey, now)
       IN /\ attempts' = Append(attempts, Attempt("direct", response, result))
          /\ IF result.status = "failed"
             THEN fetchPc' = "fallback" /\ UNCHANGED <<cacheFiles, fetchResult>>
             ELSE fetchPc' = "done" /\ cacheFiles' = end.files /\ fetchResult' = end.result
  /\ UNCHANGED <<fetchFrame, predicted>>

\* The direct attempt returns (month.ts:291-297, and 313-327 when it did not fail).
ScrapeMonthDirect ==
  /\ fetchPc = "direct"
  /\ \E response \in Responses :
       LET result == FetchMonthDataWithRequest(response, now)
           end == ScrapeMonthFinish(result, FALSE, cacheFiles, FetchKey, now)
       IN /\ attempts' = Append(attempts, Attempt("direct", response, result))
          /\ IF result.status = "failed"
             THEN fetchPc' = "retry" /\ UNCHANGED <<cacheFiles, fetchResult>>
             ELSE fetchPc' = "done" /\ cacheFiles' = end.files /\ fetchResult' = end.result
  /\ UNCHANGED <<fetchFrame, predicted>>

\* The direct retry returns (month.ts:296-305, and 313-327 when it did not fail).
ScrapeMonthRetry ==
  /\ fetchPc = "retry"
  /\ \E response \in Responses :
       LET result == FetchMonthDataWithRequest(response, now)
           end == ScrapeMonthFinish(result, FALSE, cacheFiles, FetchKey, now)
       IN /\ attempts' = Append(attempts, Attempt("retry", response, result))
          /\ IF result.status = "failed"
             THEN fetchPc' = "fallback" /\ UNCHANGED <<cacheFiles, fetchResult>>
             ELSE fetchPc' = "done" /\ cacheFiles' = end.files /\ fetchResult' = end.result
  /\ UNCHANGED <<fetchFrame, predicted>>

\* The browser fallback returns (month.ts:307-327).
ScrapeMonthFallback ==
  /\ fetchPc = "fallback"
  /\ \E response \in Responses :
       LET result == FetchMonthDataWithPageFallback(response, now)
           end == ScrapeMonthFinish(result, TRUE, cacheFiles, FetchKey, now)
       IN /\ attempts' = Append(attempts, Attempt("fallback", response, result))
          /\ fetchPc' = "done"
          /\ cacheFiles' = end.files
          /\ fetchResult' = end.result
  /\ UNCHANGED <<fetchFrame, predicted>>

(***************************************************************************)
(* fetchMonthDataWithPageFallback in detail (month.ts:181-250): the        *)
(* promise apiResponsePromise, its timer and its response listener          *)
(***************************************************************************)
\* The body null, and the value the timer settles the promise with.
NullPayload == Payload("null", FALSE, <<>>)

\* The responses the page sees: one of another URL, API responses that are refused or
\* do not parse, and API responses with the bodies null, {}, [] and one day on offer.
CaptureResponses ==
  {Response("other", 200, "", TRUE, Payload("object", FALSE, <<>>)),
   Response("http", 403, "", FALSE, Payload("object", FALSE, <<>>)),
   Response("http", 200, "", FALSE, Payload("object", FALSE, <<>>)),
   Response("http", 200, "", TRUE, NullPayload),
   Response("http", 200, "", TRUE, Payload("object", FALSE, <<>>)),
   Response("http", 200, "", TRUE, Payload("array", FALSE, <<>>)),
   Response("http", 200, "", TRUE,
            Payload("array", FALSE,
                    <<ApiPointsDay(FALSE, TRUE, ApiSeatData(TRUE, Value(5000), Value(2)),
                                   NoCabin, NoCabin)>>))}

\* month.ts:189-223: the locals after the promise is created: the timer is armed and
\* the listener attached. pending holds the responses whose handler awaits
\* response.json(); value is <<>> until the promise is resolved; by, seen and late are
\* history: who settled the promise, the responses that arrived while the listener
\* was attached, and how many arrived after it was removed.
NewCapture ==
  [pc |-> "capture", settled |-> FALSE, value |-> <<>>, timerArmed |-> TRUE,
   listening |-> TRUE, lastApiStatus |-> 0, apiParseErrors |-> 0, pending |-> <<>>,
   gotoDone |-> FALSE, by |-> "none", seen |-> <<>>, late |-> 0]

\* A finish that resolves again.
FinishAgain(c, v, who) ==
  [c EXCEPT !.settled = TRUE, !.timerArmed = FALSE, !.listening = FALSE,
            !.value = <<v>>, !.by = who]

\* month.ts:196-202: finish(value), called by who.
Finish(c, v, who) ==
  IF c.settled THEN c
  ELSE [c EXCEPT !.settled = TRUE, !.timerArmed = FALSE, !.listening = FALSE,
                 !.value = <<v>>, !.by = who]

\* !apiResponseRaw (month.ts:232) on the values of the model.
IsFalsy(v) == v.json = "null"

\* month.ts:231-246: what the call returns once the promise has resolved.
PageFallbackResult(c, scrapedAt) ==
  IF IsFalsy(c.value[1])
  THEN IF c.lastApiStatus # 0
       THEN Failed(Reason("fallback API HTTP", c.lastApiStatus, ""))
       ELSE Failed(Reason(IF c.apiParseErrors > 0 THEN "fallback API parse failure"
                          ELSE "fallback API timeout", 0, ""))
  ELSE BuildMonthDataFromApiPayload(c.value[1], scrapedAt)

captureFrame == <<phase, requestQueue, routeStates, planVars, runVars, fetchPc, predicted,
                  attempts, pages>>

\* The page sees a response (month.ts:205-212): nothing happens once the listener is
\* removed or for another URL; a status other than 200 is remembered; a 200 starts
\* response.json().
ResponseArrives ==
  /\ capture.pc = "capture"
  /\ Len(capture.seen) + capture.late < MaxResponses
  /\ \E response \in CaptureResponses :
       capture' =
         IF ~capture.listening THEN [capture EXCEPT !.late = @ + 1]
         ELSE LET c == [capture EXCEPT !.seen = Append(@, response)]
              IN IF response.kind = "other" THEN c
                 ELSE IF response.status # 200
                 THEN [c EXCEPT !.lastApiStatus = response.status]
                 ELSE [c EXCEPT !.pending = Append(@, response)]
  /\ UNCHANGED <<captureFrame, fetchResult>>

\* response.json() of the k-th waiting handler settles (month.ts:213-219).
JsonSettles(k) ==
  /\ capture.pc = "capture"
  /\ k \in 1..Len(capture.pending)
  /\ LET response == capture.pending[k]
         c == [capture EXCEPT
                 !.pending = [j \in 1..(Len(@) - 1) |-> IF j < k THEN @[j] ELSE @[j + 1]]]
     IN capture' = IF response.bodyParses THEN Finish(c, response.payload, "response")
                   ELSE [c EXCEPT !.apiParseErrors = @ + 1]
  /\ UNCHANGED <<captureFrame, fetchResult>>

\* The 30-second timer fires (month.ts:204).
TimerFires ==
  /\ capture.pc = "capture"
  /\ capture.timerArmed
  /\ capture' = Finish(capture, NullPayload, "timer")
  /\ UNCHANGED <<captureFrame, fetchResult>>

\* page.goto returns or throws (month.ts:225-229).
GotoReturns ==
  /\ capture.pc = "capture"
  /\ ~capture.gotoDone
  /\ capture' = [capture EXCEPT !.gotoDone = TRUE]
  /\ UNCHANGED <<captureFrame, fetchResult>>

\* The await of the promise resumes and the call returns (month.ts:231-246).
CaptureReturns ==
  /\ capture.pc = "capture"
  /\ capture.gotoDone
  /\ capture.settled
  /\ capture' = [capture EXCEPT !.pc = "done"]
  /\ fetchResult' = PageFallbackResult(capture, now)
  /\ UNCHANGED captureFrame

\* A stored day: an economy cabin at 5000 points, with or without its seat count and
\* its capture timestamp.
StoredDay(scrapedAt, economySeats) ==
  [scrapedAt |-> scrapedAt, minPrice |-> Value(250), currency |-> Value("GBP"),
   minAwardPointsTotal |-> Value(5000),
   economy |-> Value(5000), economySeats |-> economySeats,
   economySeatsDisplay |-> Value("2"), economyIsSaver |-> Value(TRUE),
   premium |-> Absent(0), premiumSeats |-> Absent(0),
   premiumSeatsDisplay |-> Absent(""), premiumIsSaver |-> Absent(FALSE),
   upper |-> Absent(0), upperSeats |-> Absent(0),
   upperSeatsDisplay |-> Absent(""), upperIsSaver |-> Absent(FALSE)]

\* The day {} of the validation test's { "bad-date": {} }.
BareDay ==
  [f \in DOMAIN StoredDay(Absent(0), Absent(0)) |->
     Absent(StoredDay(Absent(0), Absent(0))[f].v)]

\* The values found in a cache file written at t: null, an array, an empty month, a
\* complete month (captured a minute before it was written),
\* a month without capture timestamps, a month without seat counts, and an object
\* keyed by something that is no date.
StoredValues(t) ==
  {NullData, ArrayData, ObjectData(NoDays),
   ObjectData([d \in {"2026-11-05"} |-> StoredDay(Value(t - 1), Value(2))]),
   ObjectData([d \in {"2026-11-05"} |-> StoredDay(Absent(0), Value(2))]),
   ObjectData([d \in {"2026-11-05"} |-> StoredDay(Value(t), Absent(0))]),
   ObjectData([d \in {"bad-date"} |-> BareDay])}

\* The files found under the key at time t: none, or a file written 61, 60 or 0
\* minutes ago that does not parse, holds no envelope, holds an envelope of another
\* schema version, or holds a version-1 envelope of one of the values.
InitialFiles(t) ==
  {NoFile}
  \cup UNION {
    {File(m, FALSE, FALSE, 0, 0, NullData),
     File(m, TRUE, FALSE, 0, 0, NullData),
     File(m, TRUE, TRUE, CACHE_SCHEMA_VERSION + 1, m,
          ObjectData([d \in {"2026-11-05"} |-> StoredDay(Value(m), Value(2))]))}
    \cup {File(m, TRUE, TRUE, CACHE_SCHEMA_VERSION, m, v) : v \in StoredValues(m)}
    : m \in {t - CACHE_MAX_AGE_MS - 1, t - CACHE_MAX_AGE_MS, t}}

(***************************************************************************)
(* Specifications                                                          *)
(***************************************************************************)
\* cli.ts:194-198: the defaults of the request tuning.
DefaultConfig ==
  [requestMaxInFlight |-> 8, dispatchIntervalMs |-> 100, dispatchIntervalJitterMs |-> 10,
   requestFailureRetryLimit |-> 1, abortConsecutiveFailures |-> 16]

\* The planner on every list of at most MaxRoutes routes.
InitPlan ==
  \E routes \in {l \in RouteLists(MaxRoutes) : DistinctCodes(l)} :
    InitPlanWith(routes, FALSE, FreshFiles({}), {"direct"}, DefaultConfig)

NextPlan == PlanSkipRoute \/ PlanAddRequest \/ PlanDone

SpecPlan == InitPlan /\ [][NextPlan]_vars

M1 == <<YearMonth(2026, 11)>>

LHRJFK == Route(<<"LHR", "JFK">>, "LHR", "JFK", M1)
JFKLHR == Route(<<"JFK", "LHR">>, "JFK", "LHR", M1)
LHRLHR == Route(<<"LHR", "LHR">>, "LHR", "LHR", M1)
MAN == Route(<<"MAN">>, "", "", M1)

Tuning(maxInFlight, jitterMs, retryLimit, abortFailures) ==
  [requestMaxInFlight |-> maxInFlight, dispatchIntervalMs |-> DispatchInterval,
   dispatchIntervalJitterMs |-> jitterMs, requestFailureRetryLimit |-> retryLimit,
   abortConsecutiveFailures |-> abortFailures]

\* The plan-time cache: fresh entries for every request leaving JFK.
JFKCache == {RequestKey("JFK", d, 2026, 11) : d \in Airports}

RunInput(routes, fresh, hits, kinds, config) ==
  [routes |-> routes, fresh |-> fresh, hits |-> hits, kinds |-> kinds, config |-> config]

\* The dispatched runs: route lists with one to three requests (a shared request, a
\* palindrome route, a malformed route), each under the tunings and fetch paths named.
RunInputs ==
  {RunInput(routes, FALSE, {}, {"fallback"}, Tuning(m, 0, r, a)) :
     routes \in {<<LHRJFK>>, <<LHRJFK, JFKLHR>>, <<LHRLHR, MAN>>, <<MAN>>, <<MAN, LHRJFK>>},
     m \in 1..MaxInFlight, r \in 0..MaxRetryLimit, a \in 1..MaxAbortFailures}
  \cup {RunInput(<<LHRJFK>>, fresh, {}, {"direct", "fallback", "cache"}, Tuning(2, MaxJitter, 0, 2)) :
          fresh \in BOOLEAN}
  \cup {RunInput(<<LHRLHR, JFKLHR>>, FALSE, hits, {"fallback"}, Tuning(m, MaxJitter, 0, 2)) :
          hits \in {{}, JFKCache}, m \in 1..MaxInFlight}

InitRun ==
  \E input \in RunInputs :
    InitPlanWith(input.routes, input.fresh, FreshFiles(input.hits), input.kinds, input.config)

NextRun ==
  \/ DispatcherLoop
  \/ DispatcherWake
  \/ DispatcherLaunch
  \/ DispatcherDrained
  \/ Tick
  \/ \E i \in DOMAIN task : ScrapeMonthReturns(i)
  \/ \E i \in DOMAIN task : ScrapeMonthThrows(i)
  \/ \E i \in DOMAIN task : RewarmStart(i)
  \/ \E i \in DOMAIN task : RewarmFinish(i)
  \/ \E i \in DOMAIN task : TaskFinally(i)

Next == NextPlan \/ NextRun

Spec == InitRun /\ [][Next]_vars

\* The runs followed to their end: two routes that share their two requests, both in
\* flight at once under every retry limit, and a malformed route next to a valid one
\* with every fetch path, one task in flight and a breaker that trips at the first
\* failure.
LiveInputs ==
  {RunInput(<<LHRJFK, JFKLHR>>, FALSE, {}, {"fallback"}, Tuning(2, 0, r, 2)) :
     r \in 0..MaxRetryLimit}
  \cup {RunInput(<<MAN, LHRJFK>>, FALSE, {}, {"direct", "fallback", "cache"},
                 Tuning(1, 0, 1, 1))}

InitLive ==
  \E input \in LiveInputs :
    InitPlanWith(input.routes, input.fresh, FreshFiles(input.hits), input.kinds, input.config)

\* The runs under the assumption that a step that can be taken is eventually taken:
\* a pending fetch attempt or session refresh returns, a timer fires, a resolved
\* promise resumes its awaiter.
SpecLive == InitLive /\ [][Next]_vars /\ WF_vars(Next)

\* Runs whose scrapeMonth calls answer directly or open a page for the browser
\* fallback.
PageRunInputs ==
  {RunInput(routes, FALSE, {}, {"direct"}, Tuning(m, 0, r, 2)) :
     routes \in {<<LHRJFK, JFKLHR>>, <<MAN, LHRJFK>>},
     m \in 1..MaxInFlight, r \in 0..MaxRetryLimit}

InitPages ==
  \E input \in PageRunInputs :
    InitPlanWith(input.routes, input.fresh, FreshFiles(input.hits), input.kinds, input.config)

NextPages ==
  \/ NextPlan
  \/ DispatcherLoop
  \/ DispatcherWake
  \/ DispatcherLaunch
  \/ DispatcherDrained
  \/ Tick
  \/ \E i \in DOMAIN task : ScrapeMonthReturns(i)
  \/ \E i \in DOMAIN task : ScrapeMonthThrows(i)
  \/ \E i \in DOMAIN task : FallbackOpensPage(i)
  \/ \E i \in DOMAIN task : FallbackReturns(i)
  \/ \E i \in DOMAIN task : RewarmStart(i)
  \/ \E i \in DOMAIN task : RewarmFinish(i)
  \/ \E i \in DOMAIN task : TaskFinally(i)

SpecPages == InitPages /\ [][NextPages]_vars

\* One fetchMonthDataWithPageFallback call, from the creation of its promise on.
InitCapture ==
  /\ phase = "capture"
  /\ allRoutes = <<>>
  /\ requestedRoutes = <<>>
  /\ targetRoutes = <<>>
  /\ forceFresh = FALSE
  /\ fetchKinds = {}
  /\ cacheFiles = FreshFiles({})
  /\ planRoute = 1
  /\ planLeg = 0
  /\ requestQueue = <<>>
  /\ routeStates = EmptyMap
  /\ InitRunState(DefaultConfig)
  /\ aggregates = NoAggregates
  /\ fetchPc = "off"
  /\ fetchResult = NoFetchResult
  /\ predicted = FALSE
  /\ attempts = <<>>
  /\ pages = NoPages
  /\ capture = NewCapture

NextCapture ==
  \/ ResponseArrives
  \/ \E k \in 1..MaxResponses : JsonSettles(k)
  \/ TimerFires
  \/ GotoReturns
  \/ CaptureReturns

SpecCapture == InitCapture /\ [][NextCapture]_vars

\* The routes handed to filterRoutes: one with its endpoint fields, one in lower case
\* without them, one whose origin field differs from its code, one with a two-letter
\* half and one without a "-".
FilterRouteUniverse ==
  {Route(<<"LHR", "JFK">>, "LHR", "JFK", M1),
   Route(<<"man", "jfk">>, "", "", M1),
   Route(<<"JFK", "LHR">>, "MAN", "", M1),
   Route(<<"LH", "MAN">>, "", "", M1),
   Route(<<"MAN">>, "", "", M1)}

\* The filter tokens: airports in either case, a two-letter token, route codes in
\* either case.
FilterTokens ==
  {<<"JFK">>, <<"man">>, <<"LHR">>, <<"LH">>, <<"LHR", "JFK">>, <<"jfk", "lhr">>}

RECURSIVE SeqsUpTo(_, _)
SeqsUpTo(universe, n) ==
  IF n = 0 THEN {<<>>}
  ELSE LET shorter == SeqsUpTo(universe, n - 1)
       IN shorter \cup {Append(l, x) : l \in {y \in shorter : Len(y) = n - 1}, x \in universe}

\* cli.ts:72-78: the routes are filtered; no route left ends the run with an error.
FilterRoutesCall ==
  /\ phase = "filter"
  /\ targetRoutes' = FilterRoutes(allRoutes, requestedRoutes)
  /\ phase' = IF Len(targetRoutes') = 0 THEN "ended" ELSE "filtered"
  /\ runOutcome' = IF Len(targetRoutes') = 0 THEN "noRoutes" ELSE runOutcome
  /\ UNCHANGED <<allRoutes, requestedRoutes, forceFresh, fetchKinds, cacheFiles, planRoute,
                 planLeg, requestQueue, routeStates, fetchVars, aggregates, destinationData, cfg, now,
                 counters, consecutiveFailedRequests, nextQueueIndex, nextDispatchAt,
                 activeTasks, abortError, rewarmLock, rewarming, task, dispPc, awaited,
                 launchLog, netLaunch, routeLog>>

\* filterRoutes on every list of at most MaxFilterRoutes routes and MaxFilters tokens.
InitFilter ==
  /\ phase = "filter"
  /\ allRoutes \in SeqsUpTo(FilterRouteUniverse, MaxFilterRoutes)
  /\ requestedRoutes \in SeqsUpTo(FilterTokens, MaxFilters)
  /\ targetRoutes = <<>>
  /\ forceFresh = FALSE
  /\ fetchKinds = {}
  /\ cacheFiles = FreshFiles({})
  /\ planRoute = 1
  /\ planLeg = 0
  /\ requestQueue = <<>>
  /\ routeStates = EmptyMap
  /\ InitRunState(DefaultConfig)
  /\ aggregates = NoAggregates
  /\ fetchPc = "off"
  /\ fetchResult = NoFetchResult
  /\ predicted = FALSE
  /\ attempts = <<>>
  /\ pages = NoPages
  /\ capture = NoCapture

NextFilter == FilterRoutesCall

SpecFilter == InitFilter /\ [][NextFilter]_vars

\* One scrapeMonth call, preceded by the planner's prediction for its key, over every
\* initial file and both values of the force flag.
InitFetch ==
  \E refresh \in BOOLEAN :
    /\ phase = "fetch"
    /\ allRoutes = <<>>
    /\ requestedRoutes = <<>>
    /\ targetRoutes = <<>>
    /\ forceFresh = refresh
    /\ fetchKinds = {}
    /\ planRoute = 1
    /\ planLeg = 0
    /\ requestQueue = <<>>
    /\ routeStates = EmptyMap
    /\ InitRunState(DefaultConfig)
    /\ aggregates = NoAggregates
    /\ \E file \in InitialFiles(1) : cacheFiles = [k \in {FetchKey} |-> file]
    /\ fetchPc = "oracle"
    /\ fetchResult = NoFetchResult
    /\ predicted = FALSE
    /\ attempts = <<>>
    /\ pages = NoPages
    /\ capture = NoCapture

NextFetch ==
  \/ FetchOracle
  \/ ScrapeMonthStart
  \/ ScrapeMonthDirect
  \/ ScrapeMonthRetry
  \/ ScrapeMonthFallback

SpecFetch == InitFetch /\ [][NextFetch]_vars


(***************************************************************************)
(* Planner claims                                                          *)
(***************************************************************************)
\* The legs the route list asks for: one per valid route, month and direction, each
\* with the directed (origin, destination, year, month) it needs.
NeededLegs ==
  UNION {
    LET route == targetRoutes[r]
        e == GetRouteEndpoints(route)
    IN IF ~RouteIsValid(route) THEN {}
       ELSE UNION {
         {[routeCode |-> route.code, type |-> "outbound", monthIndex |-> k - 1,
           tuple |-> <<e.originCode, e.destinationCode, route.months[k].year,
                       route.months[k].month>>],
          [routeCode |-> route.code, type |-> "inbound", monthIndex |-> k - 1,
           tuple |-> <<e.destinationCode, e.originCode, route.months[k].year,
                       route.months[k].month>>]} : k \in 1..Len(route.months)}
    : r \in 1..Len(targetRoutes)}

ItemTuple(item) == <<item.requestOrigin, item.requestDestination, item.year, item.month>>

DependentsOf(item) == {item.dependents[k] : k \in 1..Len(item.dependents)}

Dep(leg) == [routeCode |-> leg.routeCode, type |-> leg.type, monthIndex |-> leg.monthIndex]

\* C1: the planned queue holds exactly one request per distinct (requestOrigin,
\* requestDestination, year, month) 4-tuple that some leg needs; the dependents of a
\* request are exactly the legs whose 4-tuple is the request's (so two legs are merged
\* if and only if all four components coincide); LHR-JFK and MAN-JFK with one common
\* month give 4 requests.
C1_OneRequestPerTuple ==
  phase # "plan" =>
    /\ \A i, j \in 1..Len(requestQueue) :
         ItemTuple(requestQueue[i]) = ItemTuple(requestQueue[j]) => i = j
    /\ {ItemTuple(requestQueue[i]) : i \in 1..Len(requestQueue)}
         = {leg.tuple : leg \in NeededLegs}
    /\ Len(requestQueue) = Cardinality({leg.tuple : leg \in NeededLegs})
    /\ \A i \in 1..Len(requestQueue) :
         /\ DependentsOf(requestQueue[i])
              = {Dep(leg) : leg \in {l \in NeededLegs : l.tuple = ItemTuple(requestQueue[i])}}
         /\ Len(requestQueue[i].dependents) = Cardinality(DependentsOf(requestQueue[i]))
    /\ (/\ Len(targetRoutes) = 2
        /\ targetRoutes[1].code = <<"LHR", "JFK">>
        /\ targetRoutes[2].code = <<"MAN", "JFK">>
        /\ Len(targetRoutes[1].months) = 1
        /\ targetRoutes[1].months = targetRoutes[2].months)
       => Len(requestQueue) = 4

\* Route A's outbound leg and route B's inbound leg share one request with two
\* dependents, next to a request of the same airports and month in another year.
C1_Witness ==
  /\ phase # "plan"
  /\ \E i, j \in 1..Len(requestQueue) :
       /\ Len(requestQueue[i].dependents) = 2
       /\ requestQueue[i].dependents[1].type = "outbound"
       /\ requestQueue[i].dependents[2].type = "inbound"
       /\ requestQueue[i].dependents[1].routeCode # requestQueue[i].dependents[2].routeCode
       /\ requestQueue[j].requestOrigin = requestQueue[i].requestOrigin
       /\ requestQueue[j].requestDestination = requestQueue[i].requestDestination
       /\ requestQueue[j].month = requestQueue[i].month
       /\ requestQueue[j].year # requestQueue[i].year

\* The months of the routes of a list from position r on, invalid routes left out.
RECURSIVE SumMonths(_, _)
SumMonths(routes, r) ==
  IF r > Len(routes) THEN 0
  ELSE (IF RouteIsValid(routes[r]) THEN Len(routes[r].months) ELSE 0)
       + SumMonths(routes, r + 1)

\* The places (request, position) where the dependent of a leg is stored.
PlacesOf(leg) ==
  {<<i, k>> \in (1..Len(requestQueue)) \X (1..(2 * MaxRoutes * MaxMonths)) :
     /\ k <= Len(requestQueue[i].dependents)
     /\ requestQueue[i].dependents[k] = Dep(leg)}

\* Two legs of the route list need the same directed origin/destination/month key.
SomeKeyShared == \E l1, l2 \in NeededLegs : l1 # l2 /\ l1.tuple = l2.tuple

\* C11: in the planned queue the dependent of every leg (routeCode, direction,
\* monthIndex) of a planned route is stored exactly once, in one request; every
\* request has at least one dependent, all of them legs of planned routes; the queue
\* has at most 2 x (sum of months over the planned routes) requests, and exactly that
\* many if and only if no directed key is needed by two legs.
C11_PlannerOutput ==
  phase # "plan" =>
    /\ \A leg \in NeededLegs : Cardinality(PlacesOf(leg)) = 1
    /\ \A i \in 1..Len(requestQueue) :
         /\ Len(requestQueue[i].dependents) >= 1
         /\ DependentsOf(requestQueue[i]) \subseteq {Dep(leg) : leg \in NeededLegs}
    /\ Cardinality(NeededLegs) = 2 * SumMonths(targetRoutes, 1)
    /\ Len(requestQueue) <= 2 * SumMonths(targetRoutes, 1)
    /\ (Len(requestQueue) = 2 * SumMonths(targetRoutes, 1)) <=> ~SomeKeyShared

\* Two routes with three months between them are planned into six requests, no key
\* being shared.
C11_Witness ==
  /\ phase # "plan"
  /\ Len(targetRoutes) = 2
  /\ SumMonths(targetRoutes, 1) = 3
  /\ Len(requestQueue) = 6
  /\ \A r \in 1..2 : RouteIsValid(targetRoutes[r])

(***************************************************************************)
(* Dispatcher claims                                                       *)
(***************************************************************************)
Resolved(i) == task[i].pc \in {"resolved", "settled"}

LaunchedItems == {launchLog[k] : k \in 1..Len(launchLog)}

\* The requests route c depends on, one entry per dependent.
DependentsOfRoute(c) ==
  {<<i, k>> \in (1..Len(requestQueue)) \X (1..(2 * MaxMonths + 2)) :
     /\ k <= Len(requestQueue[i].dependents)
     /\ requestQueue[i].dependents[k].routeCode = c}

AllDependentsResolved(c) == \A d \in DependentsOfRoute(c) : Resolved(d[1])

\* Some month slot of either direction of route c holds at least one date.
SomeSlotHasDate(c) ==
  \E k \in DOMAIN routeStates[c].outbound :
    \/ Len(routeStates[c].outbound[k]) = 1 /\ Cardinality(routeStates[c].outbound[k][1]) >= 1
    \/ Len(routeStates[c].inbound[k]) = 1 /\ Cardinality(routeStates[c].inbound[k][1]) >= 1

\* C2 as stated: a planned route is in destinationData if and only if every one of
\* its dependents has resolved, and it is emitted at most once.
C2_EmittedIffAllResolved ==
  phase # "plan" =>
    \A c \in DOMAIN routeStates :
      /\ (c \in DOMAIN destinationData) <=> AllDependentsResolved(c)
      /\ routeLog[c].emitted <= 1

\* C2 amended: a planned route has 2 x months dependents; it is in destinationData if
\* and only if every one of them has resolved and some month slot of the route holds
\* a date; it is emitted exactly once then and never otherwise.
C2_EmittedIffAllResolvedWithData ==
  phase # "plan" =>
    \A c \in DOMAIN routeStates :
      /\ Cardinality(DependentsOfRoute(c)) = 2 * Len(routeStates[c].route.months)
      /\ (c \in DOMAIN destinationData) <=> (AllDependentsResolved(c) /\ SomeSlotHasDate(c))
      /\ routeLog[c].emitted = IF c \in DOMAIN destinationData THEN 1 ELSE 0

\* A route fed by two requests is emitted with its outbound slot empty and a date in
\* its inbound slot.
C2_Witness ==
  /\ phase # "plan"
  /\ \E c \in DOMAIN destinationData :
       /\ destinationData[c].outbound[0] = <<{}>>
       /\ destinationData[c].inbound[0] # <<{}>>
       /\ Cardinality({d[1] : d \in DependentsOfRoute(c)}) = 2

\* C3 as stated: when the consecutive failures reach the threshold the breaker is
\* tripped, and once it is tripped no queue item is launched any more.
C3_NoLaunchAfterTrip ==
  [][/\ (consecutiveFailedRequests' >= cfg.abortConsecutiveFailures => abortError' # 0)
     /\ (abortError # 0 => nextQueueIndex' = nextQueueIndex)]_vars

\* C4: a run whose breaker tripped ends only when every launched request has resolved,
\* been counted and fanned out, and it ends with the abort error (whose N is at least
\* the threshold), also when no route has data.
C4_AbortAfterDrain ==
  (phase = "ended" /\ abortError # 0) =>
    /\ runOutcome = "abort"
    /\ abortError >= cfg.abortConsecutiveFailures
    /\ activeTasks = {}
    /\ \A i \in LaunchedItems : task[i].pc = "settled"
    /\ counters.completedRequests = Len(launchLog)
    /\ \A i \in LaunchedItems :
         \A k \in 1..Len(requestQueue[i].dependents) :
           LET dependent == requestQueue[i].dependents[k]
               routeState == routeStates[dependent.routeCode]
           IN IF dependent.type = "outbound"
              THEN routeState.outbound[dependent.monthIndex] # Hole
              ELSE routeState.inbound[dependent.monthIndex] # Hole

\* The run ended with the abort error although no route has data, and a request
\* resolved non-failed after the breaker had tripped.
C4_Witness ==
  /\ phase = "ended"
  /\ runOutcome = "abort"
  /\ DOMAIN destinationData = {}
  /\ consecutiveFailedRequests = 0
  /\ counters.completedRequests >= 2

Last(seq) == seq[Len(seq)]

\* C5: a step that resolves a request either counts it failed and adds one to the
\* consecutive-failure counter (always so for an exception out of the fetch) or counts
\* it non-failed and resets the counter to zero; the breaker trips in a step only if
\* it leaves the counter at or above the threshold; no other step changes either.
C5_FailureOnlyCounts ==
  [][/\ \A i \in DOMAIN task :
          (i \in DOMAIN task' /\ ~Resolved(i) /\ task'[i].pc = "resolved") =>
            /\ counters'.completedRequests = counters.completedRequests + 1
            /\ \/ /\ counters'.failedRequests = counters.failedRequests + 1
                  /\ counters'.successfulRequests = counters.successfulRequests
                  /\ consecutiveFailedRequests' = consecutiveFailedRequests + 1
               \/ /\ counters'.failedRequests = counters.failedRequests
                  /\ counters'.successfulRequests = counters.successfulRequests + 1
                  /\ consecutiveFailedRequests' = 0
            /\ (Last(task'[i].runs) \in {"failed", "thrown"}) <=>
                 (counters'.failedRequests = counters.failedRequests + 1)
     /\ (abortError' # abortError) =>
          /\ abortError = 0
          /\ consecutiveFailedRequests' >= cfg.abortConsecutiveFailures
          /\ abortError' = consecutiveFailedRequests'
     /\ (counters' = counters) =>
          (consecutiveFailedRequests' = consecutiveFailedRequests /\ abortError' = abortError)
    ]_vars

\* A fetch threw and was counted as failed, a later resolution reset the counter, and
\* the breaker has not tripped.
C5_Witness ==
  /\ phase # "plan"
  /\ abortError = 0
  /\ consecutiveFailedRequests = 0
  /\ counters.failedRequests >= 1
  /\ \E i \in DOMAIN task : Resolved(i) /\ Last(task[i].runs) = "thrown"

\* C6: at most requestMaxInFlight tasks are in flight, and a step that starts from a
\* state with that many in flight launches nothing.
C6_BoundedInFlight ==
  /\ [](Cardinality(activeTasks) <= cfg.requestMaxInFlight)
  /\ [][Cardinality(activeTasks) >= cfg.requestMaxInFlight
          => nextQueueIndex' = nextQueueIndex]_vars

\* Two tasks are in flight, the bound, with an item still to launch.
C6_Witness ==
  /\ phase = "dispatch"
  /\ cfg.requestMaxInFlight = 2
  /\ Cardinality(activeTasks) = 2
  /\ nextQueueIndex < Len(requestQueue)

\* The items a step launches.
NewlyLaunched == {i \in DOMAIN task : task[i].pc = "queued" /\ task'[i].pc # "queued"}

\* C7: an item that is not a predicted cache hit is launched through a dispatch window,
\* at least dispatchIntervalMs plus the jitter drawn for the previous such launch (a
\* value in 0..jitterMs) after that launch; a predicted cache hit is launched without
\* a window: its launch neither waits for nextDispatchAt nor moves it.
C7_DispatchSpacing ==
  [][\A i \in NewlyLaunched :
       IF requestQueue[i].likelyCacheHit
       THEN /\ netLaunch'.item # i
            /\ dispPc # "sleep"
            /\ (netLaunch' = netLaunch => nextDispatchAt' = nextDispatchAt
                                          \/ dispPc' = "window")
       ELSE /\ netLaunch'.item = i
            /\ netLaunch'.jitterMs \in 0..cfg.dispatchIntervalJitterMs
            /\ netLaunch.item # 0 =>
                 now >= netLaunch.windowAt + cfg.dispatchIntervalMs + netLaunch.jitterMs
    ]_vars

\* Three items were launched: one through a window, a predicted cache hit right
\* behind it while the window was closed, and one through the next window.
C7_Witness ==
  /\ phase # "plan"
  /\ Len(launchLog) = 3
  /\ ~requestQueue[1].likelyCacheHit
  /\ requestQueue[2].likelyCacheHit
  /\ netLaunch.item = 3
  /\ cfg.dispatchIntervalJitterMs > 0

\* The scrapeMonth calls task i has started.
StartedRuns(i) == Len(task[i].runs) + (IF task[i].pc = "scrape" THEN 1 ELSE 0)

SuccessfulRewarms(i) ==
  Cardinality({k \in 1..Len(task[i].rewarms) : task[i].rewarms[k]})

\* C8: a queue item runs scrapeMonth at most 1 + retryLimit times; every run before its
\* last resolved failed; the runs after the first are as many as the session refreshes
\* the item completed successfully, each refresh but the last was successful, and with
\* retryLimit = 0 there is no refresh and no second run.
C8_BoundedRetries ==
  phase # "plan" =>
    \A i \in DOMAIN task :
      /\ StartedRuns(i) <= 1 + cfg.requestFailureRetryLimit
      /\ \A k \in 1..(StartedRuns(i) - 1) : task[i].runs[k] = "failed"
      /\ Len(task[i].rewarms) <= cfg.requestFailureRetryLimit
      /\ \A k \in 1..(Len(task[i].rewarms) - 1) : task[i].rewarms[k]
      /\ task[i].pc # "queued" => StartedRuns(i) = 1 + SuccessfulRewarms(i)
      /\ task[i].pc = "queued" => StartedRuns(i) = 0 /\ task[i].rewarms = <<>>
      /\ cfg.requestFailureRetryLimit = 0 => task[i].rewarms = <<>> /\ StartedRuns(i) <= 1
      /\ task[i].pc \in {"lockWait", "rewarm"} => Last(task[i].runs) = "failed"

\* An item failed, refreshed the session, and succeeded on its second run.
C8_Witness ==
  /\ phase # "plan"
  /\ \E i \in DOMAIN task :
       /\ task[i].runs = <<"failed", "success">>
       /\ task[i].rewarms = <<TRUE>>

\* C9: at most one execution of rewarmScrapeSession is in progress.
C9_OneRewarmAtATime == Cardinality(rewarming) <= 1

\* One task is refreshing the session while another failed task waits for its turn.
C9_Witness ==
  /\ Cardinality(rewarming) = 1
  /\ Len(rewarmLock) = 2
  /\ \E i \in DOMAIN task : task[i].pc = "lockWait"

\* C10: a route has been evaluated once if its pending counter is zero and not at all
\* otherwise; it has been emitted (once) if it was evaluated and some month slot of
\* either direction holds a date, and not at all otherwise; destinationData holds
\* exactly the emitted routes, with their slots.
C10_EvaluatedOnce ==
  phase # "plan" =>
    \A c \in DOMAIN routeStates :
      /\ routeLog[c].evaluated = IF routeStates[c].pendingRequests = 0 THEN 1 ELSE 0
      /\ routeLog[c].emitted =
           IF routeLog[c].evaluated = 1 /\ SomeSlotHasDate(c) THEN 1 ELSE 0
      /\ (c \in DOMAIN destinationData) <=> (routeLog[c].emitted = 1)
      /\ c \in DOMAIN destinationData =>
           /\ destinationData[c].outbound = routeStates[c].outbound
           /\ destinationData[c].inbound = routeStates[c].inbound

\* One route was evaluated and dropped, another was evaluated and emitted with a date
\* in its inbound slot only.
C10_Witness ==
  /\ phase # "plan"
  /\ \E c, e \in DOMAIN routeStates :
       /\ routeLog[c].evaluated = 1
       /\ routeLog[c].emitted = 0
       /\ e \in DOMAIN destinationData
       /\ destinationData[e].outbound[0] = <<{}>>

(***************************************************************************)
(* Claims about the cache and the fetch protocol (SpecFetch)               *)
(***************************************************************************)

\* The file under the followed key holds an entry readCache hands to the planner: a
\* parsing version-1 envelope whose data is month data.
ReadableEntry(file) ==
  /\ file.exists /\ file.parses /\ file.isEnvelope
  /\ file.schemaVersion = CACHE_SCHEMA_VERSION
  /\ IsMonthData(file.data)

\* Some day has a cabin price without that cabin's seat count.
PriceWithoutSeatCount(days) ==
  \E d \in DOMAIN days :
    \E c \in {<<"economy", "economySeats">>, <<"premium", "premiumSeats">>,
              <<"upper", "upperSeats">>} :
      /\ days[d][c[1]].has \notin {"absent", "undefined"}
      /\ days[d][c[2]].has \in {"absent", "undefined"}

\* C12: willUseMonthCache returns true if and only if the run is not forced fresh, a
\* readable cache entry exists for the key, no day of the cached month has a cabin
\* price without a seat count, and the entry is at most one hour old; evaluating it
\* leaves the cache as it was.
C12_OracleRule ==
  [][fetchPc = "oracle" /\ fetchPc' = "scrape" =>
       /\ cacheFiles' = cacheFiles
       /\ predicted' <=>
            /\ ~forceFresh
            /\ ReadableEntry(cacheFiles[FetchKey])
            /\ ~PriceWithoutSeatCount(cacheFiles[FetchKey].data.days)
            /\ now - cacheFiles[FetchKey].mtime <= cacheMaxAgeMs]_vars

\* The oracle has answered true for an entry with a day that is exactly one hour old.
C12_Witness ==
  /\ fetchPc = "scrape"
  /\ predicted
  /\ now - cacheFiles[FetchKey].mtime = cacheMaxAgeMs
  /\ DOMAIN cacheFiles[FetchKey].data.days # {}

\* C13: once scrapeMonth has checked the cache, it has answered from the cache if and
\* only if willUseMonthCache returned true for the same cache contents, clock and
\* force flag.
C13_SameRule ==
  fetchPc \in {"direct", "retry", "fallback", "done"} =>
    (fetchResult.fromCache = Value(TRUE) <=> predicted)

\* C14: when scrapeMonth has resolved success or empty from the network (direct
\* attempt, direct retry or browser fallback), the file under its key is the envelope
\* of the returned month data, written at that moment, whatever the file was before.
C14_NetworkResultCached ==
  fetchPc = "done" /\ attempts # <<>> /\ fetchResult.status \in {"success", "empty"} =>
    cacheFiles[FetchKey] =
      File(now, TRUE, TRUE, CACHE_SCHEMA_VERSION, now,
           [type |-> "object", days |-> JsonMonthData(fetchResult.monthData)])

\* The browser fallback has resolved a month without dates after both direct attempts
\* failed, in a run that is not forced fresh.
C14_Witness ==
  /\ fetchPc = "done"
  /\ Len(attempts) = 3
  /\ fetchResult.status = "empty"
  /\ fetchResult.usedFallback = Value(TRUE)
  /\ ~forceFresh

\* The cabins of a payload day and the four properties each one is stored under.
CabinFields ==
  {[api |-> "awardEconomy", price |-> "economy", seats |-> "economySeats",
    display |-> "economySeatsDisplay", saver |-> "economyIsSaver"],
   [api |-> "awardComfortPlusPremiumEconomy", price |-> "premium", seats |-> "premiumSeats",
    display |-> "premiumSeatsDisplay", saver |-> "premiumIsSaver"],
   [api |-> "awardBusiness", price |-> "upper", seats |-> "upperSeats",
    display |-> "upperSeatsDisplay", saver |-> "upperIsSaver"]}

\* The days of a parsed payload that have seat data, by position.
DaysWithSeats(payload) ==
  {k \in 1..Len(payload.days) : ~payload.days[k].isNull /\ payload.days[k].hasSeats}

PositivePoints(cabin) ==
  cabin.present /\ cabin.cabinPointsValue.has = "value" /\ cabin.cabinPointsValue.v > 0

\* C15: in every month parsed from a payload, a cabin whose cabinPointsValue is 0 or
\* absent leaves no price, seat count, seat display or saver property in the day's
\* record, and a cabin with positive points has all four properties, the price being
\* its points and the others the payload's values.
C15_ZeroPointCabinsOmitted ==
  \A i \in 1..Len(attempts) :
    attempts[i].result.status # "failed" =>
      \A k \in DaysWithSeats(attempts[i].response.payload) :
        /\ PayloadDates[k] \in DOMAIN attempts[i].result.monthData
        /\ \A c \in CabinFields :
             LET cabin == attempts[i].response.payload.days[k].seats[c.api]
                 rec == attempts[i].result.monthData[PayloadDates[k]]
             IN IF PositivePoints(cabin)
                THEN /\ rec[c.price] = Value(cabin.cabinPointsValue.v)
                     /\ \A f \in {c.seats, c.display, c.saver} : rec[f].has # "absent"
                     /\ cabin.cabinClassSeatCount.has = "value" =>
                          rec[c.seats] = cabin.cabinClassSeatCount
                     /\ rec[c.display] = cabin.cabinClassSeatCountString
                     /\ rec[c.saver] = cabin.isSaverAward
                ELSE \A f \in {c.price, c.seats, c.display, c.saver} :
                       rec[f].has = "absent"

\* A month has been parsed from a payload with a day whose premium cabin is at zero
\* points, whose economy cabin has no points and whose business cabin is on offer.
C15_Witness ==
  /\ fetchPc = "done"
  /\ fetchResult.status = "success"
  /\ \E i \in 1..Len(attempts) :
       /\ attempts[i].result.status = "success"
       /\ \E k \in DaysWithSeats(attempts[i].response.payload) :
            LET seats == attempts[i].response.payload.days[k].seats
                rec == fetchResult.monthData[PayloadDates[k]]
            IN /\ seats.awardComfortPlusPremiumEconomy.cabinPointsValue = Value(0)
               /\ seats.awardEconomy.present
               /\ seats.awardEconomy.cabinPointsValue.has = "absent"
               /\ PositivePoints(seats.awardBusiness)
               /\ rec.premium.has = "absent"
               /\ rec.upper = Value(20000)

\* C16: in every month parsed from a payload, the date of a day that has seat data but
\* no cabin with positive points is not a key of the month, and a month whose days
\* with seat data are all of that kind resolves empty.
C16_ZeroPointDaysDropped ==
  \A i \in 1..Len(attempts) :
    attempts[i].result.status # "failed" =>
      LET payload == attempts[i].response.payload
          NothingOnOffer(k) == \A c \in CabinFields : ~PositivePoints(payload.days[k].seats[c.api])
      IN /\ \A k \in DaysWithSeats(payload) :
              NothingOnOffer(k) => PayloadDates[k] \notin DOMAIN attempts[i].result.monthData
         /\ (\A k \in DaysWithSeats(payload) : NothingOnOffer(k)) =>
              attempts[i].result.status = "empty"

\* A 2xx response whose body is no JSON or whose JSON is no array of days.
MalformedPayload(response) ==
  /\ response.kind = "http" /\ response.status >= 200 /\ response.status <= 299
  /\ ~response.bodyParses \/ response.payload.json # "array"

\* A 2xx response whose body is a JSON array of days.
WellFormedPayload(response) ==
  /\ response.kind = "http" /\ response.status >= 200 /\ response.status <= 299
  /\ response.bodyParses /\ response.payload.json = "array"

\* C17: every direct attempt that got a non-2xx response or a malformed payload has
\* resolved failed with a reason string, and every direct attempt that got a
\* well-formed payload without any date has resolved empty.
C17_DirectFailuresCarryReason ==
  \A i \in 1..Len(attempts) :
    attempts[i].path \in {"direct", "retry"} =>
      LET response == attempts[i].response
          result == attempts[i].result
      IN /\ (response.kind = "http" /\ (response.status < 200 \/ response.status > 299))
              \/ MalformedPayload(response)
              => result.status = "failed" /\ result.failReason # <<>>
         /\ WellFormedPayload(response) /\ DaysWithSeats(response.payload) = {}
              => result.status = "empty"

\* scrapeMonth has just written its month to the cache.
MonthWritten ==
  fetchPc = "done" /\ attempts # <<>> /\ fetchResult.status \in {"success", "empty"}

\* No property of the value holds undefined.
NoUndefinedProperty(value) ==
  \A d \in DOMAIN value.days :
    \A f \in DOMAIN value.days[d] : value.days[d][f].has # "undefined"

\* readCache returns null for the file, with and without the shape validator.
ReadsAsNull(validate) ==
  ReadCache(cacheFiles, FetchKey, validate, CACHE_SCHEMA_VERSION) = NullData

\* C18 as stated: after writeCache(key, value), readCache(key) returns a value equal
\* to value; and readCache returns null when the file is missing, does not parse,
\* holds no envelope, holds an envelope of another schemaVersion, or holds data the
\* validator rejects.
C18_RoundTripEqual ==
  /\ MonthWritten =>
       ReadCache(cacheFiles, FetchKey, FALSE, CACHE_SCHEMA_VERSION)
         = ObjectData(fetchResult.monthData)
  /\ LET file == cacheFiles[FetchKey]
     IN /\ ~file.exists \/ ~file.parses \/ ~file.isEnvelope
             \/ file.schemaVersion # CACHE_SCHEMA_VERSION
             => ReadsAsNull(FALSE) /\ ReadsAsNull(TRUE)
        /\ ~IsMonthData(file.data) => ReadsAsNull(TRUE)

\* C18, amended: after writeCache(key, value), readCache(key) returns the image of
\* value under JSON.stringify and JSON.parse, which equals value when no property of
\* value holds undefined; and readCache returns null when the file is missing, does
\* not parse, holds no envelope, holds an envelope of another schemaVersion, or holds
\* data the validator rejects.
C18_RoundTripJson ==
  /\ MonthWritten =>
       LET value == ObjectData(fetchResult.monthData)
           read == ReadCache(cacheFiles, FetchKey, FALSE, CACHE_SCHEMA_VERSION)
       IN /\ read = JsonValue(value)
          /\ NoUndefinedProperty(value) => read = value
  /\ LET file == cacheFiles[FetchKey]
     IN /\ ~file.exists \/ ~file.parses \/ ~file.isEnvelope
             \/ file.schemaVersion # CACHE_SCHEMA_VERSION
             => ReadsAsNull(FALSE) /\ ReadsAsNull(TRUE)
        /\ ~IsMonthData(file.data) => ReadsAsNull(TRUE)

\* A month with a day whose economySeats property holds undefined has been written,
\* and reading it back gives the month without that property.
C18_Witness ==
  /\ MonthWritten
  /\ \E d \in DOMAIN fetchResult.monthData :
       /\ fetchResult.monthData[d].economySeats.has = "undefined"
       /\ ReadCache(cacheFiles, FetchKey, FALSE, CACHE_SCHEMA_VERSION).days[d].economySeats.has
            = "absent"

(***************************************************************************)
(* Claims about the end of the run (Spec)                                  *)
(***************************************************************************)

\* C19: when the run has ended with the abort error, every route that completed with
\* data before the abort is part of the run's result, the per-route dataset handed to
\* the caller and written for downstream consumers.
C19_CompletedRoutesKept ==
  phase = "ended" /\ runOutcome = "abort" =>
    \A c \in DOMAIN destinationData :
      /\ c \in DOMAIN ScrapeToCacheResult(runOutcome, destinationData)
      /\ ScrapeToCacheResult(runOutcome, destinationData)[c] = destinationData[c]

\* Every request of the queue has resolved.
EveryRequestResolved == \A i \in 1..Len(requestQueue) : Resolved(i)

\* C20 as stated: a run in which every request has resolved and no route has a date
\* ends with the error "No data found for any route"; a run whose planner produced no
\* request ends with an error before anything is dispatched; neither ends as a
\* success.
C20_NoDataIsNoDataError ==
  phase = "ended" =>
    /\ Len(requestQueue) = 0 =>
         runOutcome = "noRequests" /\ launchLog = <<>> /\ counters.completedRequests = 0
    /\ Len(requestQueue) > 0 /\ EveryRequestResolved /\ DOMAIN destinationData = {} =>
         runOutcome = "noData"
    /\ DOMAIN destinationData = {} => runOutcome # "ok"

\* C20, amended: a run in which every request has resolved and no route has a date
\* ends with the error "No data found for any route" unless the breaker has tripped,
\* in which case it ends with the abort error; a run whose planner produced no
\* request ends with an error before anything is dispatched; none ends as a success.
C20_NoDataIsAnError ==
  phase = "ended" =>
    /\ Len(requestQueue) = 0 =>
         runOutcome = "noRequests" /\ launchLog = <<>> /\ counters.completedRequests = 0
    /\ Len(requestQueue) > 0 /\ EveryRequestResolved /\ DOMAIN destinationData = {} =>
         runOutcome = IF abortError # 0 THEN "abort" ELSE "noData"
    /\ DOMAIN destinationData = {} => runOutcome # "ok"

\* A run of at least two requests has ended with every request resolved, the breaker
\* untripped and no route with data.
C20_Witness ==
  /\ phase = "ended"
  /\ runOutcome = "noData"
  /\ abortError = 0
  /\ Len(requestQueue) >= 2
  /\ EveryRequestResolved
  /\ counters.completedRequests = Len(requestQueue)
  /\ DOMAIN destinationData = {}

\* The manifest and the flights dataset the run has written.
Manifest == ScrapeManifest(runOutcome, targetRoutes, destinationData)
FlightsDataset == ScrapeToCacheResult(runOutcome, destinationData)

ManifestCodes == {Manifest[1].destinations[k].code : k \in 1..Len(Manifest[1].destinations)}

\* C21: the manifest exists only once the dispatch loop has finished and every
\* launched request has resolved and settled; its route list is, without repetition,
\* the set of routes the aggregator emitted, each with a month that holds a date, which
\* is the key set of the flights dataset written with it; once written it never
\* changes.
C21_ManifestAfterAggregation ==
  [][/\ Manifest # <<>> => Manifest' = Manifest
     /\ Manifest' # <<>> =>
          /\ phase' = "ended" /\ dispPc' = "ended"
          /\ activeTasks' = {}
          /\ nextQueueIndex' = Len(requestQueue')
          /\ \A i \in 1..Len(requestQueue') : task'[i].pc = "settled"
          /\ ManifestCodes' = {c \in DOMAIN routeLog' : routeLog'[c].emitted = 1}
          /\ ManifestCodes' = DOMAIN FlightsDataset'
          /\ Cardinality(ManifestCodes') = Len(Manifest'[1].destinations)
          /\ \A c \in ManifestCodes' : SomeSlotHasDate(c)']_vars

\* A run has ended with a manifest that lists one of its two routes.
C21_Witness ==
  /\ phase = "ended"
  /\ Manifest # <<>>
  /\ Len(targetRoutes) = 2
  /\ Len(Manifest[1].destinations) = 1
  /\ \A k \in 1..Len(targetRoutes) : RouteIsValid(targetRoutes[k])

\* C22: the launch history is increasing in queue position (an item earlier in the
\* queue is launched before a later one, none twice), it holds exactly the items the
\* loop has passed, and no two launched items carry the same request key.
C22_LaunchedInQueueOrder ==
  /\ \A a, b \in 1..Len(launchLog) : a < b => launchLog[a] < launchLog[b]
  /\ LaunchedItems = 1..nextQueueIndex
  /\ \A i \in DOMAIN task : task[i].pc # "queued" <=> i \in LaunchedItems
  /\ \A a, b \in 1..Len(launchLog) :
       requestQueue[launchLog[a]].key = requestQueue[launchLog[b]].key => a = b

\* Completion out of launch order: a later item has resolved while an earlier one is
\* still fetching.
C22_Witness ==
  \E i, j \in LaunchedItems :
    /\ i < j
    /\ task[i].pc = "scrape"
    /\ Resolved(j)

\* The tasks that resolve in the step.
NewlyResolved ==
  {i \in DOMAIN task' : task'[i].pc = "resolved" /\ (i \notin DOMAIN task \/ task[i].pc # "resolved")}

\* C23: every step leaves the counters with completed = successful + failed,
\* empty <= successful, cached <= successful, fallbackUsed <= completed and
\* completed <= launched items <= queue length; no counter decreases; the counters
\* change only in a step in which exactly one task resolves, which adds exactly 1 to
\* completed, and every step in which a task resolves is such a step.
C23_CountersConsistent ==
  [][/\ counters'.completedRequests = counters'.successfulRequests + counters'.failedRequests
     /\ counters'.emptyRequests <= counters'.successfulRequests
     /\ counters'.cachedRequests <= counters'.successfulRequests
     /\ counters'.fallbackRequests <= counters'.completedRequests
     /\ counters'.completedRequests <= Len(launchLog')
     /\ Len(launchLog') <= Len(requestQueue')
     /\ \A f \in DOMAIN counters : counters'[f] >= counters[f]
     /\ Cardinality(NewlyResolved) <= 1
     /\ counters'.completedRequests = counters.completedRequests + Cardinality(NewlyResolved)
     /\ counters' # counters => Cardinality(NewlyResolved) = 1]_vars

\* Two requests have resolved, one failed through the fallback and one from the cache.
C23_Witness ==
  /\ counters.completedRequests >= 2
  /\ counters.failedRequests >= 1
  /\ counters.fallbackRequests >= 1
  /\ counters.cachedRequests >= 1

(***************************************************************************)
(* Claims about the route filter (SpecFilter)                              *)
(***************************************************************************)

\* The origin and destination of a route in upper case, the endpoint fields first
\* and the halves of the code where a field is missing.
OriginOf(route) ==
  ToUpperCase(IF route.originCode # "" THEN route.originCode
              ELSE IF Len(route.code) >= 1 THEN route.code[1] ELSE "")
DestinationOf(route) ==
  ToUpperCase(IF route.destinationCode # "" THEN route.destinationCode
              ELSE IF Len(route.code) >= 2 THEN route.code[2] ELSE "")

\* The claim's rule for keeping a route.
KeptByFilters(route, filters) ==
  \/ filters = <<>>
  \/ \E k \in 1..Len(filters) :
       /\ Len(filters[k]) >= 2
       /\ CodeToUpperCase(filters[k]) = CodeToUpperCase(route.code)
  \/ \E k \in 1..Len(filters) :
       /\ Len(filters[k]) = 1
       /\ StringLength(filters[k][1]) = 3
       /\ ToUpperCase(filters[k][1]) \in {OriginOf(route), DestinationOf(route)}

\* The positions of the routes the rule keeps, and the j-th of them.
KeptPositions == {k \in 1..Len(allRoutes) : KeptByFilters(allRoutes[k], requestedRoutes)}
KeptPosition(j) == CHOOSE k \in KeptPositions : Cardinality({x \in KeptPositions : x <= k}) = j

\* C24: the result of filterRoutes holds exactly the routes of the input that the
\* filter list keeps (the list is empty, or a token with "-" equals the route code, or
\* a 3-letter token without "-" equals the route's origin or destination, all in upper
\* case), in input order.
C24_FilterRoutes ==
  phase \in {"filtered", "ended"} =>
    /\ Len(targetRoutes) = Cardinality(KeptPositions)
    /\ \A j \in 1..Len(targetRoutes) : targetRoutes[j] = allRoutes[KeptPosition(j)]

\* Three routes were filtered by a lower-case airport token and a two-letter token:
\* the first was dropped, the other two were kept in order, one of them for its
\* destination taken from the halves of a lower-case code.
C24_Witness ==
  /\ phase = "filtered"
  /\ requestedRoutes = <<<<"LH">>, <<"man">>>>
  /\ Len(allRoutes) = 3
  /\ allRoutes[1].code = <<"LHR", "JFK">>
  /\ targetRoutes = <<allRoutes[2], allRoutes[3]>>
  /\ allRoutes[2].code = <<"LH", "MAN">>
  /\ allRoutes[3].code = <<"man", "jfk">>

(***************************************************************************)
(* Claims about the session rewarm (Spec)                                  *)
(***************************************************************************)

\* Task i has started its n-th execution of rewarmScrapeSession.
StartedRewarm(i, n) ==
  \/ Len(task[i].rewarms) >= n
  \/ i \in rewarming /\ Len(task[i].rewarms) = n - 1

\* C25: a request that asked for a session refresh while another task's refresh was
\* executing does not execute a refresh of its own for that call.
C25_NoDuplicateRefresh ==
  \A i \in DOMAIN task :
    \A n \in 1..Len(task[i].chained) :
      task[i].chained[n] => ~StartedRewarm(i, n)

C27_FetchSteps ==
  /\ Len(attempts) <= 3
  /\ \A k \in 1..Len(attempts) :
       /\ attempts[k].path = <<"direct", "retry", "fallback">>[k]
       /\ k < Len(attempts) => attempts[k].result.status = "failed"
  /\ fetchPc \in {"oracle", "scrape", "direct"} => attempts = <<>>
  /\ fetchPc = "retry" => Len(attempts) = 1 /\ attempts[1].result.status = "failed"
  /\ fetchPc = "fallback" =>
       Len(attempts) = 2 /\ \A k \in 1..2 : attempts[k].result.status = "failed"
  /\ fetchPc = "done" =>
       /\ fetchResult.fromCache = Value(TRUE) <=> attempts = <<>>
       /\ attempts # <<>> =>
            /\ fetchResult.status = attempts[Len(attempts)].result.status
            /\ fetchResult.usedFallback = Value(Len(attempts) = 3)
            /\ Len(attempts) < 3 => fetchResult.status # "failed"
       /\ fetchResult.status = "failed" =>
            Len(attempts) = 3 /\ \A k \in 1..3 : attempts[k].result.status = "failed"

\* A call has resolved failed after a direct attempt, a retry and a fallback.
C27_Witness ==
  /\ fetchPc = "done"
  /\ fetchResult.status = "failed"
  /\ Len(attempts) = 3
  /\ attempts[3].path = "fallback"

(***************************************************************************)
(* Claims about the route completion fan-out (Spec)                        *)
(***************************************************************************)

\* The dependents of route c, as <<request, position>>, whose request has resolved.
ResolvedDependentsOfRoute(c) ==
  IF phase = "plan" THEN {}
  ELSE {d \in DependentsOfRoute(c) : Resolved(d[1])}

\* C28: the pending counter of every planned route is 2 x (number of its months)
\* minus the number of its dependents whose request has resolved, so a request with
\* two dependents of one route takes two off; and a slot of the route is filled
\* exactly when the dependent for it belongs to a resolved request.
C28_PendingCountsDependents ==
  \A c \in DOMAIN routeStates :
    LET rs == routeStates[c]
        done == ResolvedDependentsOfRoute(c)
        Filled(type, m) ==
          \E d \in done : /\ requestQueue[d[1]].dependents[d[2]].type = type
                          /\ requestQueue[d[1]].dependents[d[2]].monthIndex = m
    IN /\ rs.pendingRequests = 2 * Len(rs.route.months) - Cardinality(done)
       /\ \A m \in DOMAIN rs.outbound : rs.outbound[m] # Hole <=> Filled("outbound", m)
       /\ \A m \in DOMAIN rs.inbound : rs.inbound[m] # Hole <=> Filled("inbound", m)

\* One resolved request was both dependents of a route from an airport to itself: the
\* route's counter went from 2 to 0 and both its slots are filled.
C28_Witness ==
  \E i \in DOMAIN task :
    /\ Resolved(i)
    /\ Len(requestQueue[i].dependents) = 2
    /\ requestQueue[i].dependents[1].routeCode = requestQueue[i].dependents[2].routeCode
    /\ LET rs == routeStates[requestQueue[i].dependents[1].routeCode]
       IN /\ Len(rs.route.months) = 1
          /\ rs.pendingRequests = 0
          /\ rs.outbound[0] # Hole
          /\ rs.inbound[0] # Hole

(***************************************************************************)
(* Claims about malformed routes (Spec)                                    *)
(***************************************************************************)

\* The origin or the destination of the route cannot be resolved.
Unresolvable(route) == OriginOf(route) = "" \/ DestinationOf(route) = ""

\* The target routes without the unresolvable ones.
ResolvableRoutes == SelectSeq(targetRoutes, LAMBDA route : ~Unresolvable(route))

\* The queue after planning every leg of every route of a list from route r, leg on.
RECURSIVE PlanOf(_, _, _, _)
PlanOf(queue, routes, r, leg) ==
  IF r > Len(routes) THEN queue
  ELSE IF leg = 2 * Len(routes[r].months) THEN PlanOf(queue, routes, r + 1, 0)
  ELSE PlanOf(PlanLeg(queue, routes[r], leg, forceFresh, cacheFiles, now), routes, r, leg + 1)

\* C29: an unresolvable route has no route state, no dependent in the queue, no
\* evaluation, no emission and no data; and once planning is over the queue and the
\* routes with a state are those planned from the list without the unresolvable
\* routes.
C29_MalformedRouteSkipped ==
  /\ \A k \in 1..Len(targetRoutes) :
       Unresolvable(targetRoutes[k]) =>
         /\ targetRoutes[k].code \notin DOMAIN routeStates
         /\ targetRoutes[k].code \notin DOMAIN routeLog
         /\ targetRoutes[k].code \notin DOMAIN destinationData
         /\ \A i \in 1..Len(requestQueue) :
              \A d \in 1..Len(requestQueue[i].dependents) :
                requestQueue[i].dependents[d].routeCode # targetRoutes[k].code
  /\ phase # "plan" =>
       /\ requestQueue = PlanOf(<<>>, ResolvableRoutes, 1, 0)
       /\ DOMAIN routeStates = {ResolvableRoutes[k].code : k \in 1..Len(ResolvableRoutes)}
       /\ DOMAIN routeLog = DOMAIN routeStates

\* A run whose first route is unresolvable has ended with its second route emitted.
C29_Witness ==
  /\ phase = "ended"
  /\ Len(targetRoutes) = 2
  /\ Unresolvable(targetRoutes[1])
  /\ targetRoutes[2].code \in DOMAIN destinationData
  /\ routeLog[targetRoutes[2].code].emitted = 1
  /\ Len(requestQueue) = 2

(***************************************************************************)
(* Claims about a cache hit of scrapeMonth (SpecFetch)                     *)
(***************************************************************************)

\* C30: in the step in which scrapeMonth answers from the cache, the answer has
\* fromCache = true, the dates of the entry, status success if there is a date and
\* empty otherwise, no network attempt behind it, and each day as the entry holds it
\* except that a day without a capture timestamp carries the file's write time; if a
\* day was backfilled the answer is written back as the entry, otherwise the cache is
\* left as it is.
C30_CacheHitBackfills ==
  [][fetchPc = "scrape" /\ fetchPc' = "done" =>
       LET entry == cacheFiles[FetchKey]
           days == entry.data.days
           Lacks(d) == days[d].scrapedAt.has # "value"
           answer == fetchResult'.monthData
       IN /\ fetchResult'.fromCache = Value(TRUE)
          /\ attempts' = <<>>
          /\ DOMAIN answer = DOMAIN days
          /\ fetchResult'.status = IF DOMAIN days # {} THEN "success" ELSE "empty"
          /\ \A d \in DOMAIN days :
               /\ answer[d].scrapedAt = IF Lacks(d) THEN Value(entry.mtime)
                                        ELSE days[d].scrapedAt
               /\ \A f \in DOMAIN days[d] \ {"scrapedAt"} : answer[d][f] = days[d][f]
          /\ IF \E d \in DOMAIN days : Lacks(d)
             THEN /\ cacheFiles'[FetchKey].data = [entry.data EXCEPT !.days = answer]
                  /\ cacheFiles'[FetchKey].mtime = now
                  /\ cacheFiles'[FetchKey].parses /\ cacheFiles'[FetchKey].isEnvelope
                  /\ cacheFiles'[FetchKey].schemaVersion = CACHE_SCHEMA_VERSION
             ELSE cacheFiles' = cacheFiles]_vars

\* A call was answered from an entry an hour old whose day had no capture timestamp:
\* the day carries the entry's write time and the entry was written back.
C30_Witness ==
  /\ fetchPc = "done"
  /\ fetchResult.fromCache = Value(TRUE)
  /\ fetchResult.status = "success"
  /\ cacheFiles[FetchKey].mtime = now
  /\ \E d \in DOMAIN fetchResult.monthData :
       /\ fetchResult.monthData[d].scrapedAt = Value(now - CACHE_MAX_AGE_MS)
       /\ fetchResult.monthData[d].economy = Value(5000)
       /\ cacheFiles[FetchKey].data.days[d] = fetchResult.monthData[d]

(***************************************************************************)
(* Claims about the order of resolutions (Spec)                            *)
(***************************************************************************)

\* The request that owns the slot (type, m) of route c, as <<request, position>>.
OwnersOfSlot(c, type, m) ==
  {d \in DependentsOfRoute(c) : /\ requestQueue[d[1]].dependents[d[2]].type = type
                                /\ requestQueue[d[1]].dependents[d[2]].monthIndex = m}

\* What the slot (type, m) of route c holds when the requests resolved so far resolved
\* with the month data recorded for them, whatever their order.
SlotByResults(c, type, m) ==
  LET done == {d \in OwnersOfSlot(c, type, m) : task[d[1]].resolution # <<>>}
  IN IF done = {} THEN Hole
     ELSE <<task[(CHOOSE d \in done : TRUE)[1]].resolution[1].monthData>>

\* The routes emitted when the requests resolved so far resolved with the month data
\* recorded for them: every dependent resolved, and a date in some slot.
EmittedByResults ==
  {c \in DOMAIN routeStates :
     /\ \A d \in DependentsOfRoute(c) : task[d[1]].resolution # <<>>
     /\ \E d \in DependentsOfRoute(c) : task[d[1]].resolution[1].monthData # {}}

\* After planning, every slot of every route has exactly one owning request and holds
\* what the results of the resolved requests alone determine; so do the emitted routes
\* and the slots they are emitted with.
DeterminedByResults ==
  phase # "plan" =>
    /\ \A c \in DOMAIN routeStates :
         /\ \A m \in DOMAIN routeStates[c].outbound :
              /\ Cardinality(OwnersOfSlot(c, "outbound", m)) = 1
              /\ routeStates[c].outbound[m] = SlotByResults(c, "outbound", m)
         /\ \A m \in DOMAIN routeStates[c].inbound :
              /\ Cardinality(OwnersOfSlot(c, "inbound", m)) = 1
              /\ routeStates[c].inbound[m] = SlotByResults(c, "inbound", m)
    /\ DOMAIN destinationData = EmittedByResults
    /\ \A c \in DOMAIN destinationData :
         /\ \A m \in DOMAIN destinationData[c].outbound :
              destinationData[c].outbound[m] = SlotByResults(c, "outbound", m)
         /\ \A m \in DOMAIN destinationData[c].inbound :
              destinationData[c].inbound[m] = SlotByResults(c, "inbound", m)

\* A slot that holds month data is not written again.
SlotWrittenOnce ==
  phase = "dispatch" =>
    \A c \in DOMAIN routeStates :
      /\ \A m \in DOMAIN routeStates[c].outbound :
           routeStates[c].outbound[m] # Hole
             => routeStates'[c].outbound[m] = routeStates[c].outbound[m]
      /\ \A m \in DOMAIN routeStates[c].inbound :
           routeStates[c].inbound[m] # Hole
             => routeStates'[c].inbound[m] = routeStates[c].inbound[m]

\* C31: in every state after planning, each slot of each route has exactly one owning
\* request and holds a hole before that request resolves and that request's month
\* data after, and the emitted routes (those with every dependent resolved and a date
\* in some slot) and their slots are determined by the results of the resolved
\* requests alone, whatever the order of the resolutions; no step writes a slot that
\* already holds month data.
C31_OrderIndependent == []DeterminedByResults /\ [][SlotWrittenOnce]_vars

\* Two routes that share both of their requests are emitted after the second request
\* of the queue resolved before the first.
C31_Witness ==
  /\ phase # "plan"
  /\ Len(requestQueue) = 2
  /\ task[1].resolution # <<>> /\ task[2].resolution # <<>>
  /\ task[2].resolution[1].seq = 1
  /\ task[1].resolution[1].seq = 2
  /\ task[1].resolution[1].monthData # {}
  /\ task[2].resolution[1].monthData = {}
  /\ Cardinality(DOMAIN destinationData) = 2

(***************************************************************************)
(* Claims about the tasks in flight (Spec)                                 *)
(***************************************************************************)

\* The tasks launched and not yet resolved: in a scrapeMonth call, waiting for the
\* rewarm lock, or rewarming.
InFlight == {i \in DOMAIN task : task[i].pc \in {"scrape", "lockWait", "rewarm"}}

\* C32: at every moment of a run the tasks in flight (first call, waiting for a
\* rewarm, rewarming or retrying) hold pairwise different (origin, destination, year,
\* month) keys, which name their raw-month cache entries; every task in flight is in
\* activeTasks, and no queue item is launched twice.
C32_OneTaskPerKey ==
  phase # "plan" =>
    /\ \A i, j \in InFlight \cup activeTasks :
         ItemTuple(requestQueue[i]) = ItemTuple(requestQueue[j]) => i = j
    /\ InFlight \subseteq activeTasks
    /\ \A a, b \in 1..Len(launchLog) : launchLog[a] = launchLog[b] => a = b

\* Two tasks are in flight with different keys: one in a retry call after a rewarm,
\* the other waiting for the rewarm lock.
C32_Witness ==
  /\ phase = "dispatch"
  /\ \E i, j \in InFlight :
       /\ i # j
       /\ task[i].pc = "scrape" /\ Len(task[i].runs) = 1 /\ task[i].rewarms = <<TRUE>>
       /\ task[j].pc = "lockWait"
       /\ ItemTuple(requestQueue[i]) # ItemTuple(requestQueue[j])

(***************************************************************************)
(* Claims about the pages of the browser fallback (SpecPages)              *)
(***************************************************************************)

\* The attempts under way: the running scrapeMonth calls that are in their fallback.
RunningFallbacks == {FallbackAttempt(i) : i \in {j \in DOMAIN task : task[j].pc = "fallback"}}

\* C33: every page was opened for an attempt of its own (no two pages for one attempt,
\* so no page serves two attempts); the pages open are exactly the pages of the
\* fallback attempts under way, so a page is closed when its attempt has ended; there
\* are never more pages open than tasks in flight; and no page is open when the run
\* has ended.
C33_PagePerAttempt ==
  /\ \A p, q \in 1..Len(pages.opened) : pages.opened[p] = pages.opened[q] => p = q
  /\ {pages.opened[p] : p \in pages.open} = RunningFallbacks
  /\ Cardinality(pages.open) = Cardinality(RunningFallbacks)
  /\ Cardinality(pages.open) <= Cardinality(activeTasks)
  /\ phase = "ended" => pages.open = {}

\* A run has ended after the breaker tripped; three pages were opened, two of them by
\* the first call and the retry of one task, and none is open.
C33_Witness ==
  /\ phase = "ended"
  /\ runOutcome = "abort"
  /\ Len(pages.opened) = 3
  /\ \E p, q \in 1..3 : /\ pages.opened[p][1] = pages.opened[q][1]
                        /\ pages.opened[p][2] = 1
                        /\ pages.opened[q][2] = 2
  /\ pages.open = {}

(***************************************************************************)
(* Claims about the capture of the browser fallback (SpecCapture)          *)
(***************************************************************************)

\* The promise is resolved exactly when finish ran, with a value that says who ran it.
SettledState ==
  /\ capture.settled <=> capture.value # <<>>
  /\ capture.settled <=> capture.by # "none"
  /\ capture.settled => ~capture.timerArmed /\ ~capture.listening
  /\ capture.by = "timer" => capture.value = <<NullPayload>>
  /\ capture.by = "response" =>
       \E k \in 1..Len(capture.seen) :
         /\ capture.seen[k].kind = "http"
         /\ capture.seen[k].status = 200
         /\ capture.seen[k].bodyParses
         /\ capture.value = <<capture.seen[k].payload>>
  /\ capture.pc = "done" => capture.settled

\* What the call returned follows the settled value: a payload is parsed; no response
\* (or the body null) is a failure whose reason is the last status other than 200, else
\* a parse failure, else the timeout.
ReturnedBySettlement ==
  capture.pc = "done" =>
    IF capture.by = "timer" \/ capture.value = <<NullPayload>>
    THEN /\ fetchResult.status = "failed"
         /\ fetchResult.failReason =
              IF \E k \in 1..Len(capture.seen) :
                   capture.seen[k].kind = "http" /\ capture.seen[k].status # 200
              THEN LET last == CHOOSE k \in 1..Len(capture.seen) :
                                 /\ capture.seen[k].kind = "http" /\ capture.seen[k].status # 200
                                 /\ \A j \in (k + 1)..Len(capture.seen) :
                                      ~(capture.seen[j].kind = "http"
                                        /\ capture.seen[j].status # 200)
                   IN Reason("fallback API HTTP", capture.seen[last].status, "")
              ELSE IF capture.apiParseErrors > 0
              THEN Reason("fallback API parse failure", 0, "")
              ELSE Reason("fallback API timeout", 0, "")
    ELSE fetchResult = BuildMonthDataFromApiPayload(capture.value[1], now)

\* A step from a settled promise leaves its value, its settler and the remembered
\* status as they are, attaches no listener, arms no timer and starts no handler.
SettledOnce ==
  capture.pc # "off" /\ capture.settled =>
    /\ capture'.settled
    /\ capture'.value = capture.value
    /\ capture'.by = capture.by
    /\ capture'.lastApiStatus = capture.lastApiStatus
    /\ capture'.seen = capture.seen
    /\ Len(capture'.pending) <= Len(capture.pending)
    /\ ~capture'.timerArmed /\ ~capture'.listening

QueueCompleted ==
  /\ nextQueueIndex = Len(requestQueue)
  /\ \A i \in DOMAIN task : task[i].pc = "settled" /\ Len(task[i].resolution) = 1
  /\ counters.completedRequests = Len(requestQueue)

\* The breaker has tripped and every launched request has resolved.
TrippedAndDrained ==
  /\ abortError # 0
  /\ \A i \in DOMAIN task :
       IF i <= nextQueueIndex THEN task[i].pc = "settled" ELSE task[i].pc = "queued"
  /\ counters.completedRequests = nextQueueIndex

\* The run has ended: without a request to dispatch, or with nothing in flight and
\* either every queued request launched and resolved once or the breaker tripped and
\* every launched request resolved.
DispatchTerminated ==
  /\ phase = "ended"
  /\ dispPc = "ended"
  /\ \/ runOutcome = "noRequests"
     \/ /\ cfg.requestMaxInFlight >= 1
        /\ activeTasks = {}
        /\ QueueCompleted \/ TrippedAndDrained

\* C35: with at least one task allowed in flight and every pending step eventually
\* taken, every run ends, with nothing in flight and either every queued request
\* launched and resolved once or the breaker tripped and every launched request
\* resolved.
C35_DispatchTerminates == <>DispatchTerminated

\* A run has ended after the breaker tripped while a request was still queued: the
\* launched request has resolved after a retry, and the second was never launched.
C35_Witness ==
  /\ phase = "ended"
  /\ runOutcome = "abort"
  /\ Len(requestQueue) = 2
  /\ nextQueueIndex = 1
  /\ TrippedAndDrained
  /\ task[1].runs = <<"failed", "failed">>

(***************************************************************************)
(* Claims about the latch of the breaker (Spec)                            *)
(***************************************************************************)

\* A tripped breaker carries the count that tripped it, and a run that ends with the
\* breaker tripped ends with the abort error.
TrippedState ==
  abortError # 0 =>
    /\ abortError = cfg.abortConsecutiveFailures
    /\ phase = "ended" => runOutcome = "abort"

\* A step leaves a tripped breaker as it is, whatever resolves; the step that trips it
\* is a failed resolution and stores the count it reached; a non-failed resolution
\* resets the count.
TripLatched ==
  /\ abortError # 0 => abortError' = abortError
  /\ abortError = 0 /\ abortError' # 0 =>
       /\ counters'.failedRequests = counters.failedRequests + 1
       /\ abortError' = consecutiveFailedRequests'
       /\ consecutiveFailedRequests' = consecutiveFailedRequests + 1
  /\ (phase = "dispatch"
      /\ counters'.successfulRequests = counters.successfulRequests + 1)
       => consecutiveFailedRequests' = 0

\* C36: once the breaker has tripped, the abort error is never cleared or replaced: a
\* later resolution that did not fail sets the consecutive-failure counter to zero and
\* leaves the abort error, which carries the count reached at the trip; a run that
\* ends with the breaker tripped ends with that abort error.
C36_BreakerLatched == []TrippedState /\ [][TripLatched]_vars

\* A run has ended with the abort error of a trip at two consecutive failures although
\* a request that was in flight at the trip resolved with data afterwards and reset
\* the counter.
C36_Witness ==
  /\ phase = "ended"
  /\ runOutcome = "abort"
  /\ abortError = 2
  /\ consecutiveFailedRequests = 0
  /\ counters.successfulRequests = 1
  /\ counters.failedRequests = 2

(***************************************************************************)
(* Claims about the pending counter of a route (Spec)                      *)
(***************************************************************************)

\* The dependents of route c, as <<request, position>>, whose request has not resolved.
UnresolvedDependentsOfRoute(c) ==
  IF phase = "plan" THEN DependentsOfRoute(c)
  ELSE {d \in DependentsOfRoute(c) : ~Resolved(d[1])}

\* The addRequest calls the planner has still to make for route c: none, unless the
\* planner is inside the loop over the months of c.
LegsToPlan(c) ==
  IF /\ phase = "plan"
     /\ planRoute <= Len(targetRoutes)
     /\ targetRoutes[planRoute].code = c
     /\ planLeg > 0
  THEN 2 * Len(targetRoutes[planRoute].months) - planLeg
  ELSE 0

\* C37: in every state, the pending counter of every planned route is the number of
\* its dependents whose request has not resolved (plus, while the planner is still
\* inside the route's month loop, the dependents it has yet to attach); it is never
\* negative; and the route is marked completed exactly when the counter is zero.
C37_PendingIsUnresolved ==
  \A c \in DOMAIN routeStates :
    /\ routeStates[c].pendingRequests
         = Cardinality(UnresolvedDependentsOfRoute(c)) + LegsToPlan(c)
    /\ routeStates[c].pendingRequests >= 0
    /\ routeStates[c].completed <=> routeStates[c].pendingRequests = 0

\* While requests are being dispatched, one route is completed with no request left
\* and another waits for one of its two requests.
C37_Witness ==
  /\ phase = "dispatch"
  /\ \E c, d \in DOMAIN routeStates :
       /\ routeStates[c].completed
       /\ routeStates[c].pendingRequests = 0
       /\ ~routeStates[d].completed
       /\ routeStates[d].pendingRequests = 1
       /\ Cardinality(UnresolvedDependentsOfRoute(d)) = 1
       /\ Cardinality(DependentsOfRoute(d)) = 2

(***************************************************************************)
(* Claims about the aggregate cache entries (Spec)                         *)
(***************************************************************************)

\* The run has ended by throwing after the routes were filtered.
EndedInError == phase = "ended" /\ runOutcome \in {"noRequests", "abort", "noData"}

\* The aggregate entries are those the run started with until the run writes, and a
\* run that has written has ended without error, unaborted and with a route emitted,
\* having written the manifest and then the dataset, once each.
AggregatesState ==
  /\ aggregates.writes = <<>> => aggregates = AggregatesBefore(cacheFiles)
  /\ EndedInError => aggregates = AggregatesBefore(cacheFiles)
  /\ aggregates.writes # <<>> =>
       /\ phase = "ended"
       /\ runOutcome = "ok"
       /\ abortError = 0
       /\ DOMAIN destinationData # {}
       /\ aggregates.writes = <<SCRAPE_METADATA_CACHE, FLIGHTS_DATASET_CACHE>>
       /\ aggregates.files[SCRAPE_METADATA_CACHE] = Manifest[1]
       /\ DOMAIN aggregates.files[FLIGHTS_DATASET_CACHE] = DOMAIN destinationData
       /\ \A c \in DOMAIN destinationData :
            aggregates.files[FLIGHTS_DATASET_CACHE][c] = destinationData[c]

\* A step that changes an aggregate entry is the step that ends the run as a success.
AggregatesWrittenAtEnd ==
  aggregates' # aggregates =>
    /\ phase = "dispatch"
    /\ phase' = "ended"
    /\ runOutcome' = "ok"
    /\ abortError = 0
    /\ DOMAIN destinationData # {}

\* C38: a run that ends in an error (no request planned, breaker abort, no data for
\* any route) leaves the run manifest and the flights dataset exactly as they were
\* when it started; the two entries are written, the manifest first and the dataset
\* second, only by the step that ends a run that did not abort and emitted a route.
C38_AggregatesOnlyOnSuccess == []AggregatesState /\ [][AggregatesWrittenAtEnd]_vars

\* A run has ended with the abort error after a route was emitted, and the entries an
\* earlier run left are both still in place.
C38_Witness ==
  /\ phase = "ended"
  /\ runOutcome = "abort"
  /\ DOMAIN destinationData # {}
  /\ aggregates = [LeftByPreviousRun EXCEPT !.writes = <<>>]
  /\ DOMAIN aggregates.files = {SCRAPE_METADATA_CACHE, FLIGHTS_DATASET_CACHE}

(***************************************************************************)
(* Claims about a failed scrapeMonth call and the cache (SpecFetch)        *)
(***************************************************************************)

\* The step ends the call with a result that is not failed.
EndsNotFailed == fetchPc' = "done" /\ fetchResult'.status \in {"success", "empty"}

\* The entry of the key is left as it is, content and modification time, by every step
\* of a call except one that ends the call with a success or an empty month. (Every
\* call that has gone past its cache check can still end failed.)
FailedCallKeepsEntry ==
  fetchPc # "oracle" /\ ~EndsNotFailed => cacheFiles' = cacheFiles

\* The call has resolved failed.
CallFailed == fetchPc = "done" /\ fetchResult.status = "failed"

\* The next cache check on the files as they are, made at once.
NextCacheCheck == ScrapeMonthCacheCheck(FALSE, cacheFiles, FetchKey, now)

\* Every day of the month data was captured at most an hour before now.
CapturedWithinTheHour(monthData) ==
  \A d \in DOMAIN monthData :
    /\ monthData[d].scrapedAt.has = "value"
    /\ now - monthData[d].scrapedAt.v <= CACHE_MAX_AGE_MS

\* After a failed call, data the next cache check serves with fromCache = true was
\* captured at most an hour earlier.
ServedAfterFailureIsFresh ==
  CallFailed /\ NextCacheCheck.hit => CapturedWithinTheHour(NextCacheCheck.result.monthData)

\* C39: a scrapeMonth call that resolves failed leaves the cache entry of its key
\* unchanged in content and in age, so an entry that was stale before a failed fetch
\* is still stale for the next freshness check, and data served with fromCache = true
\* was captured from the network at most one hour earlier.
C39_FailedCallLeavesCache == []ServedAfterFailureIsFresh /\ [][FailedCallKeepsEntry]_vars

\* The part of C39 that holds: once the cache check is over, the steps of a call that
\* resolves failed (direct attempt, retry, browser fallback) leave the entry alone.
AttemptKeepsEntry ==
  fetchPc \in {"direct", "retry", "fallback"} /\ ~EndsNotFailed => cacheFiles' = cacheFiles

C39_AttemptsLeaveEntry == [][AttemptKeepsEntry]_vars

(***************************************************************************)
(* Claims about who uses the dispatch window (Spec)                        *)
(***************************************************************************)

\* The item the dispatch loop is about to launch after the step.
ItemAtWindow == nextQueueIndex' + 1

\* After the step the loop is inside waitForDispatchWindow for an item that has not
\* been launched and is not a predicted cache hit.
WindowForFirstLaunch ==
  /\ ItemAtWindow <= Len(requestQueue)
  /\ ~requestQueue[ItemAtWindow].likelyCacheHit
  /\ task'[ItemAtWindow].pc = "queued"
  /\ task'[ItemAtWindow].runs = <<>>

\* The step does nothing to a launched task: no scrapeMonth call returns, no retry
\* starts, nothing resolves.
NoTaskStep ==
  /\ \A i \in DOMAIN task : task[i].pc # "queued" => task'[i] = task[i]
  /\ counters' = counters

\* Who reads and who advances the window, step by step.
WindowUse ==
  /\ nextDispatchAt' # nextDispatchAt =>
       /\ dispPc' = "window"
       /\ WindowForFirstLaunch
       /\ NoTaskStep
       /\ nextDispatchAt' = now + cfg.dispatchIntervalMs + awaited'.jitterMs
  /\ dispPc' = "sleep" /\ dispPc # "sleep" => WindowForFirstLaunch /\ NoTaskStep
  /\ \A i \in DOMAIN task :
       /\ task[i].pc # "queued" /\ task'[i] # task[i] =>
            nextDispatchAt' = nextDispatchAt /\ dispPc' = dispPc /\ awaited' = awaited
       /\ task[i].pc = "queued" /\ task'[i].pc # "queued" =>
            IF requestQueue[i].likelyCacheHit
            THEN ~(dispPc = "window" /\ i = nextQueueIndex + 1)
            ELSE dispPc = "window" /\ i = nextQueueIndex + 1 /\ netLaunch'.item = i

\* C40: nextDispatchAt is read and advanced only by the dispatch loop on behalf of the
\* first launch of a queue item that is not a predicted cache hit; the launch of a
\* predicted cache hit, a retry invocation after a session refresh and a resolution
\* leave it unchanged and unread, so retries and mispredicted cache hits go to the
\* network while the window is closed.
C40_WindowOnlyForFirstLaunch == [][WindowUse]_vars

\* A predicted cache hit was launched right after the item that took the window, was
\* answered by the network, and has resolved while the loop still sleeps in front of
\* the closed window for the next item.
C40_Witness ==
  /\ phase = "dispatch"
  /\ dispPc = "sleep"
  /\ now < nextDispatchAt
  /\ \E i \in DOMAIN task :
       /\ requestQueue[i].likelyCacheHit
       /\ i \in LaunchedItems
       /\ netLaunch.item = i - 1
       /\ Resolved(i)
       /\ fetchKinds = {"fallback"}
       /\ task[i].runs # <<>>

\* A retry invocation is at the network while the window is closed.
C40_RetryDoesNotWait ==
  /\ phase = "dispatch"
  /\ dispPc = "sleep"
  /\ now < nextDispatchAt
  /\ \E i \in DOMAIN task :
       task[i].pc = "scrape" /\ Len(task[i].runs) >= 1 /\ task[i].rewarms # <<>>

====
